---- MODULE Spec2Model ----
(***************************************************************************)
(* Verification model of scheduled_modules:                                *)
(*   - the trigger compiler      (service/scheduler.py, _build_trigger)    *)
(*   - the dedup store           (modules/career_watch/lib/db.py)          *)
(*   - the scrape orchestration  (modules/career_watch/lib/engine.py)      *)
(*   - scheduler start-up, job runs and the controller                     *)
(*     (service/scheduler.py, service/config_schema.py, service/runner.py, *)
(*      service/imap_commands/handlers.py)                                 *)
(* Text is modelled as a sequence of one-character strings so that         *)
(* splitting, integer parsing and whitespace trimming are computed.        *)
(***************************************************************************)
EXTENDS Integers, Sequences, FiniteSets, TLC

VARIABLES
    trig_def,       \* the trigger description handed to _build_trigger
    compiled,       \* what _build_trigger produced for trig_def
    fire_times,     \* fire times the compiled trigger has produced so far
    rows,           \* committed rows of the postings table
    db_lock,        \* connection holding the database write lock, 0 if free
    schema,         \* TRUE once the table and its unique index exist
    pc,             \* per caller: position inside filter_new
    call,           \* per caller: arguments of its current filter_new call
    idx,            \* per caller: index of the next posting of the batch
    new_items,      \* per caller: the new_items list built so far
    txn,            \* per caller: rows inserted in its open transaction
    snap,           \* per caller: committed rows when its call started
    overlapped,     \* per caller: the call ran while the other was running
    ncalls,         \* number of filter_new calls started (also the clock)
    returned,       \* per fingerprint: times it was returned as new
    last,           \* the filter_new call completed most recently
    eng_pc,         \* position of the run_once call: idle, fan_out, done
    settings,       \* Settings of the current run_once call
    task,           \* per kind: state of its _run_kind future
    spec_i,         \* per kind: specs its scraper has processed
    task_out,       \* per kind: ScrapeResults its scraper has produced
    collected,      \* kinds whose future the as_completed loop has handled
    all_results,    \* all_results of the current call
    resolved,       \* kinds whose scraper class was looked up in this call
    eng_before,     \* committed rows when the call reached filter_new
    outcome,        \* what the current call returned or raised
    nruns,          \* run_once calls started
    dedupe_calls,   \* filter_new calls the current run_once call has made
    summaries,      \* summary records the current run_once call has emitted
    cfg_jobs,       \* the jobs list of the configuration given to start()
    start_pc,       \* position of scheduler.start(): idle, init, loop, ...
    job_i,          \* index of the next job definition start() looks at
    sched_jobs,     \* JobSpecs registered with the scheduler
    skipped,        \* indexes of the definitions start() skipped
    start_exc,      \* the exception start() raised, "none" if none
    validated,      \* what validate() said of the jobs list
    timeout_cfg,    \* per job id: the timeout_sec of its definition
    runs,           \* the run_module_once calls made so far, in start order
    instances,      \* per job id: instances the executor counts as running
    live,           \* per job id: the job is in the scheduler's job store
    skips,          \* firings the executor refused for max_instances
    imap_run,       \* the run the IMAP thread is inside, 0 if it is idle
    resume,         \* per job id: a resume date job for it is pending
    sched_running,  \* scheduler.running
    stopped_evt,    \* SchedulerController._stopped_evt is set
    stop_pc,        \* position of the current stop() call
    stop_calls,     \* stop() calls that have returned
    stop_exc,       \* the exception a stop() call raised, "none" if none
    join_pc,        \* position of the join() call: idle, waiting, returned
    join_timeout,   \* timeout of the join() call, 0 for None
    join_waited,    \* time the join() call has waited
    join_result,    \* what join() returned
    mail_pc,        \* position of the run_module_once call under study
    mail_in,        \* its arguments, its environment and what the module does
    mail_result,    \* the RunResult it built
    mail_exc,       \* the exception it holds to re-raise, "none" if none
    send_calls,     \* send_html calls it has made
    html_sent,      \* its html_sent flag
    mail_ret,       \* what it returned or raised
    mail_logged,    \* where its activity record went
    job_done,       \* how the _job_wrapper around it ended, "none" if not yet
    ro_pc,          \* position of the run_once call whose logging is studied
    ro_in,          \* what its scrapers and its store do, and the mode
    ro_logs,        \* the records it has handed to logging_bridge so far
    ro_result,      \* what it returned or raised
    lis_pc,         \* position of the command listener thread
    lis_stop,       \* stop_event is set
    backoff,        \* the listener's backoff, in seconds
    last_uid,       \* the listener's last_uid
    state_file,     \* the UID in the state file, 0 if missing or unreadable
    inbox,          \* the command mailbox: the email of UID i at index i
    new_uids,       \* UIDs the running _process_new_emails has yet to handle
    handled,        \* per UID: handle_command calls made for it
    retry_wait,     \* seconds the latest retry sleep was set to, 0 if none
    retry_after_ok  \* the latest retry followed an established connection

trigVars == <<trig_def, compiled, fire_times>>

storeVars == <<rows, db_lock, schema, pc, call, idx, new_items, txn, snap,
               overlapped, ncalls, returned, last>>

engVars == <<eng_pc, settings, task, spec_i, task_out, collected, all_results,
             resolved, eng_before, outcome, nruns, dedupe_calls, summaries>>

\* what the current run_once call has done to the store and the log
runLog == <<dedupe_calls, summaries>>

startVars == <<cfg_jobs, start_pc, job_i, sched_jobs, skipped, start_exc,
               validated>>

jobVars == <<timeout_cfg, runs, instances, live, skips, imap_run, resume>>

ctlVars == <<sched_running, stopped_evt, stop_pc, stop_calls, stop_exc,
             join_pc, join_timeout, join_waited, join_result>>

mailVars == <<mail_pc, mail_in, mail_result, mail_exc, send_calls, html_sent,
              mail_ret, mail_logged, job_done>>

roVars == <<ro_pc, ro_in, ro_logs, ro_result>>

lisVars == <<lis_pc, lis_stop, backoff, last_uid, state_file, inbox, new_uids,
             handled, retry_wait, retry_after_ok>>

\* the command side of the service: the runner call under study
cmdVars == <<mailVars, roVars, lisVars>>

svcVars == <<startVars, jobVars, ctlVars, cmdVars>>

\* what a filter_new caller keeps between its steps
callerVars == <<db_lock, schema, pc, call, idx, new_items, txn, snap,
                overlapped, last>>

vars == <<trig_def, compiled, fire_times, rows, db_lock, schema, pc, call, idx, new_items,
          txn, snap, overlapped, ncalls, returned, last, eng_pc, settings,
          task, spec_i, task_out, collected, all_results, resolved,
          eng_before, outcome, nruns, dedupe_calls, summaries, cfg_jobs, start_pc, job_i, sched_jobs,
          skipped, start_exc, validated, timeout_cfg, runs, instances, live,
          skips, imap_run, resume, sched_running, stopped_evt, stop_pc, stop_calls,
          stop_exc, join_pc, join_timeout, join_waited, join_result,
          mail_pc, mail_in, mail_result, mail_exc, send_calls, html_sent,
          mail_ret, mail_logged, job_done, ro_pc, ro_in, ro_logs, ro_result,
          lis_pc, lis_stop, backoff, last_uid, state_file, inbox, new_uids,
          handled, retry_wait, retry_after_ok>>

\* the service before start() is called
StartIdle ==
    /\ cfg_jobs = <<>>
    /\ start_pc = "idle"
    /\ job_i = 0
    /\ sched_jobs = {}
    /\ skipped = {}
    /\ start_exc = "none"
    /\ validated = "pending"

\* the ids of the configured jobs
JobIds == {"j1", "j2"}

\* no job has fired and no RUN command has arrived
JobsIdle ==
    /\ timeout_cfg = [j \in JobIds |-> 0]
    /\ runs = <<>>
    /\ instances = [j \in JobIds |-> 0]
    /\ live = [j \in JobIds |-> TRUE]
    /\ skips = {}
    /\ imap_run = 0
    /\ resume = [j \in JobIds |-> FALSE]

\* the controller of a scheduler nobody has asked to stop or joined
CtlIdle ==
    /\ sched_running = TRUE
    /\ stopped_evt = FALSE
    /\ stop_pc = "idle"
    /\ stop_calls = 0
    /\ stop_exc = "none"
    /\ join_pc = "idle"
    /\ join_timeout = 0
    /\ join_waited = 0
    /\ join_result = FALSE

\* no run_module_once call is under study
MailIdle ==
    /\ mail_pc = "idle"
    /\ mail_in = <<>>
    /\ mail_result = <<>>
    /\ mail_exc = "none"
    /\ send_calls = 0
    /\ html_sent = FALSE
    /\ mail_ret = <<>>
    /\ mail_logged = "none"
    /\ job_done = [status |-> "none", written |-> "none"]

\* no run_once call is being followed through its logging
RoIdle ==
    /\ ro_pc = "idle"
    /\ ro_in = <<>>
    /\ ro_logs = <<>>
    /\ ro_result = "none"

\* the command listener thread has not been started
LisIdle ==
    /\ lis_pc = "off"
    /\ lis_stop = FALSE
    /\ backoff = 0
    /\ last_uid = 0
    /\ state_file = 0
    /\ inbox = <<>>
    /\ new_uids = <<>>
    /\ handled = <<>>
    /\ retry_wait = 0
    /\ retry_after_ok = FALSE

CmdIdle == MailIdle /\ RoIdle /\ LisIdle

SvcIdle == StartIdle /\ JobsIdle /\ CtlIdle /\ CmdIdle

(***************************************************************************)
(* Generic helpers                                                         *)
(***************************************************************************)
Range(f) == {f[i] : i \in DOMAIN f}

SeqsUpTo(S, n) == UNION {[1..k -> S] : k \in 0..n}

\* str.strip(): drop the blanks at both ends
RECURSIVE LStrip(_)
LStrip(s) == IF s # <<>> /\ Head(s) = " " THEN LStrip(Tail(s)) ELSE s

RECURSIVE RStrip(_)
RStrip(s) ==
    IF s # <<>> /\ s[Len(s)] = " " THEN RStrip(SubSeq(s, 1, Len(s) - 1)) ELSE s

Strip(s) == RStrip(LStrip(s))

(***************************************************************************)
(* Trigger compiler: daily_time branch                                     *)
(***************************************************************************)
\* Longest `time` list the model feeds to the compiler.
MaxTimes == 3

DigitChars == {"0", "1", "2", "3", "4", "5", "6", "7", "8", "9"}

DigitVal(c) ==
    CASE c = "0" -> 0 [] c = "1" -> 1 [] c = "2" -> 2 [] c = "3" -> 3
      [] c = "4" -> 4 [] c = "5" -> 5 [] c = "6" -> 6 [] c = "7" -> 7
      [] c = "8" -> 8 [] c = "9" -> 9

\* str.split(":"): the pieces between the separators, empty pieces kept
RECURSIVE SplitFrom(_, _, _, _)
SplitFrom(s, i, cur, acc) ==
    IF i > Len(s) THEN Append(acc, cur)
    ELSE IF s[i] = ":" THEN SplitFrom(s, i + 1, <<>>, Append(acc, cur))
    ELSE SplitFrom(s, i + 1, Append(cur, s[i]), acc)

SplitColon(s) == SplitFrom(s, 1, <<>>, <<>>)

\* int(str) accepts an optional sign followed by one or more digits
IntBody(part) ==
    IF Len(part) > 0 /\ part[1] \in {"-", "+"} THEN Tail(part) ELSE part

IsIntText(part) ==
    /\ Len(IntBody(part)) > 0
    /\ \A i \in 1..Len(IntBody(part)) : IntBody(part)[i] \in DigitChars

RECURSIVE DigitsVal(_, _)
DigitsVal(ds, acc) ==
    IF ds = <<>> THEN acc ELSE DigitsVal(Tail(ds), acc * 10 + DigitVal(Head(ds)))

IntOf(part) ==
    IF Len(part) > 0 /\ part[1] = "-" THEN 0 - DigitsVal(IntBody(part), 0)
    ELSE DigitsVal(IntBody(part), 0)

\* datetime.time(hh, mm, ss) raises ValueError outside these ranges
TimeInRange(hh, mm, ss) ==
    /\ hh >= 0 /\ hh <= 23
    /\ mm >= 0 /\ mm <= 59
    /\ ss >= 0 /\ ss <= 59

BadTime == [ok |-> FALSE, h |-> 0, m |-> 0, s |-> 0]

_parse_time(s) ==
    LET parts == SplitColon(s) IN
    IF Len(parts) \notin {2, 3} THEN BadTime
    ELSE IF \E i \in 1..Len(parts) : ~IsIntText(parts[i]) THEN BadTime
    ELSE LET hh == IntOf(parts[1])
             mm == IntOf(parts[2])
             ss == IF Len(parts) = 3 THEN IntOf(parts[3]) ELSE 0
         IN IF TimeInRange(hh, mm, ss)
            THEN [ok |-> TRUE, h |-> hh, m |-> mm, s |-> ss]
            ELSE BadTime

\* lexicographic order of (hour, minute, second), as sorted() orders tuples
TripleLess(a, b) ==
    \/ a[1] < b[1]
    \/ a[1] = b[1] /\ a[2] < b[2]
    \/ a[1] = b[1] /\ a[2] = b[2] /\ a[3] < b[3]

RECURSIVE SortedTriples(_)
SortedTriples(S) ==
    IF S = {} THEN <<>>
    ELSE LET lo == CHOOSE x \in S : \A y \in S \ {x} : TripleLess(x, y)
         IN <<lo>> \o SortedTriples(S \ {lo})

\* day_of_week expressions the model uses, as the weekdays they select
\* (0 = mon .. 6 = sun); a missing day_of_week selects every day
AllDays == 0..6

DowDays(expr) ==
    CASE expr = "none"    -> AllDays
      [] expr = "mon-fri" -> 0..4
      [] expr = "mon-sat" -> 0..5
      [] expr = "sun"     -> {6}

\* CronTrigger(second=s, minute=m, hour=h, day_of_week=dow): every field is
\* the set of values it admits
CronTrigger(sec, min, hr, dow) ==
    [second |-> sec, minute |-> min, hour |-> hr, days |-> DowDays(dow)]

\* a single rule whose fields list all hours, all minutes and all seconds
PerTimeTriggersCross(sorted_times, dow) ==
    IF Len(sorted_times) = 0 THEN <<>>
    ELSE <<CronTrigger({sorted_times[i][3] : i \in 1..Len(sorted_times)},
                       {sorted_times[i][2] : i \in 1..Len(sorted_times)},
                       {sorted_times[i][1] : i \in 1..Len(sorted_times)}, dow)>>

\* one rule per parsed triple, in sorted order
PerTimeTriggers(sorted_times, dow) ==
    [i \in 1..Len(sorted_times) |->
        CronTrigger({sorted_times[i][3]}, {sorted_times[i][2]},
                    {sorted_times[i][1]}, dow)]

NoRules == <<>>

\* what a call of _build_trigger gives: a trigger, or the exception it raised
Built(type, rules, interval, jitter) ==
    [status |-> "ok", type |-> type, rules |-> rules, interval |-> interval,
     jitter |-> jitter]

Raised(exc) ==
    [status |-> exc, type |-> "none", rules |-> NoRules, interval |-> 0,
     jitter |-> 0]

NotCompiled == Raised("pending")

\* the normalised `time` value: a lone string becomes a one-element list
TimesOf(dtdef) ==
    IF dtdef.shape = "str" THEN <<dtdef.items[1]>> ELSE dtdef.items

\* the daily_time branch of _build_trigger, applied to trig_def["daily_time"]
DailyTimeBranch(td) ==
    IF td.form # "dict" \/ td.unknown \/ td.time.shape = "missing"
    THEN Raised("ValueError")
    ELSE LET times  == TimesOf(td.time)
             parsed == [i \in 1..Len(times) |-> _parse_time(times[i])]
         IN IF \E i \in 1..Len(parsed) : ~parsed[i].ok
            THEN Raised("ValueError")
            ELSE LET uniq == {<<parsed[i].h, parsed[i].m, parsed[i].s>> :
                                  i \in 1..Len(parsed)}
                     per_time_triggers ==
                         PerTimeTriggers(SortedTriples(uniq), td.day_of_week)
                 IN IF Len(per_time_triggers) = 1
                    THEN Built("cron", per_time_triggers, 0, 0)
                    ELSE Built("or", per_time_triggers, 0, 0)

\* A cron rule fires at an instant when every field admits the instant's value
RuleFires(rule, inst) ==
    /\ inst.day \in rule.days
    /\ inst.h \in rule.hour
    /\ inst.m \in rule.minute
    /\ inst.s \in rule.second

\* An OR-combination fires whenever any constituent rule fires
Fires(trig, inst) == \E i \in 1..Len(trig.rules) : RuleFires(trig.rules[i], inst)

(***************************************************************************)
(* Trigger compiler: the trigger description and the other branches        *)
(***************************************************************************)
\* a value read from the configuration: a missing key, None, an int or a str
PyAbsent == [t |-> "absent", n |-> 0, s |-> <<>>]

PyNone == [t |-> "none", n |-> 0, s |-> <<>>]

PyInt(n) == [t |-> "int", n |-> n, s |-> <<>>]

PyStr(s) == [t |-> "str", n |-> 0, s |-> s]

\* int(v): the integer, or the exception int() raises
PyIntOf(v) ==
    CASE v.t = "int" -> [exc |-> "none", val |-> v.n]
      [] v.t = "str" ->
            IF IsIntText(Strip(v.s))
            THEN [exc |-> "none", val |-> IntOf(Strip(v.s))]
            ELSE [exc |-> "ValueError", val |-> 0]
      [] v.t = "bool" -> [exc |-> "none", val |-> v.n]
      [] OTHER -> [exc |-> "TypeError", val |-> 0]

IntervalUnits == <<"weeks", "days", "hours", "minutes", "seconds">>

IntervalAllowed ==
    {"weeks", "days", "hours", "minutes", "seconds", "jitter", "timezone",
     "start_date", "end_date"}

\* the keys an interval object of the model may carry
IntervalKeys == Range(IntervalUnits) \cup {"jitter", "fortnights"}

CronAllowed ==
    {"second", "minute", "hour", "day", "day_of_week", "month", "timezone",
     "start_date", "end_date", "jitter"}

\* the keys a cron object of the model may carry
CronKeys == {"second", "minute", "hour", "day_of_week", "every"}

\* the four entries of a trigger description, each absent, None or set
AbsInterval ==
    [given |-> "absent", form |-> "dict",
     fields |-> [k \in IntervalKeys |-> PyAbsent]]

AbsCron ==
    [given |-> "absent", form |-> "str", text |-> <<>>,
     fields |-> [k \in CronKeys |-> PyAbsent]]

AbsDate == [given |-> "absent", form |-> "scalar", run_at |-> "none"]

AbsDaily ==
    [given |-> "absent", form |-> "dict", unknown |-> FALSE,
     time |-> [shape |-> "missing", items |-> <<>>], day_of_week |-> "none"]

EmptyTrigDef ==
    [shape |-> "dict", interval |-> AbsInterval, cron |-> AbsCron,
     date |-> AbsDate, daily_time |-> AbsDaily]

TriggerKinds == <<"interval", "cron", "date", "daily_time">>

\* ---------- interval ----------
\* _as_int_ge0(name): 0 for a missing key, else int() of the value, >= 0
_as_int_ge0(fields, name) ==
    IF fields[name].t = "absent" THEN [exc |-> "none", val |-> 0]
    ELSE LET r == PyIntOf(fields[name])
         IN IF r.exc # "none" THEN r
            ELSE IF r.val < 0 THEN [exc |-> "ValueError", val |-> 0]
            ELSE r

\* datetime.timedelta(weeks, days, hours, minutes, seconds) as (days, seconds)
Timedelta(iv) ==
    LET secs == iv["hours"] * 3600 + iv["minutes"] * 60 + iv["seconds"]
    IN [days    |-> iv["weeks"] * 7 + iv["days"] + (secs \div 86400),
        seconds |-> secs % 86400]

TotalSeconds(td) == td.days * 86400 + td.seconds

\* a timedelta that leaves the weeks out
IntervalTriggerNoWeeks(iv, jitter) ==
    Built("interval", NoRules,
          TotalSeconds(Timedelta([iv EXCEPT !["weeks"] = 0])), jitter)

\* IntervalTrigger(**kwargs): its period is the timedelta's total_seconds()
IntervalTrigger(iv, jitter) ==
    Built("interval", NoRules, TotalSeconds(Timedelta(iv)), jitter)

IntervalBranch(spec) ==
    IF spec.form # "dict" THEN Raised("ValueError")
    ELSE IF \E k \in IntervalKeys :
                spec.fields[k].t # "absent" /\ k \notin IntervalAllowed
    THEN Raised("ValueError")
    ELSE LET got == [i \in 1..Len(IntervalUnits) |->
                        _as_int_ge0(spec.fields, IntervalUnits[i])]
             bad == {i \in 1..Len(got) : got[i].exc # "none"}
         IN IF bad # {}
            THEN Raised(got[CHOOSE i \in bad : \A j \in bad : i <= j].exc)
            ELSE LET iv == [k \in Range(IntervalUnits) |->
                              _as_int_ge0(spec.fields, k).val]
                     j  == _as_int_ge0(spec.fields, "jitter")
                 IN IF iv["weeks"] + iv["days"] + iv["hours"]
                         + iv["minutes"] + iv["seconds"] = 0
                    THEN Raised("ValueError")
                    ELSE IF j.exc # "none" THEN Raised(j.exc)
                    ELSE IntervalTrigger(iv, j.val)

\* ---------- cron ----------
\* str.split(sep): the pieces between the separators, empty pieces kept
RECURSIVE SplitAtFrom(_, _, _, _, _)
SplitAtFrom(s, sep, i, cur, acc) ==
    IF i > Len(s) THEN Append(acc, cur)
    ELSE IF s[i] = sep THEN SplitAtFrom(s, sep, i + 1, <<>>, Append(acc, cur))
    ELSE SplitAtFrom(s, sep, i + 1, Append(cur, s[i]), acc)

SplitAt(s, sep) == SplitAtFrom(s, sep, 1, <<>>, <<>>)

\* str.split(): the runs of non-blank characters
RECURSIVE SplitWsFrom(_, _, _, _)
SplitWsFrom(s, i, cur, acc) ==
    IF i > Len(s) THEN (IF cur = <<>> THEN acc ELSE Append(acc, cur))
    ELSE IF s[i] = " "
    THEN SplitWsFrom(s, i + 1, <<>>, IF cur = <<>> THEN acc ELSE Append(acc, cur))
    ELSE SplitWsFrom(s, i + 1, Append(cur, s[i]), acc)

SplitWs(s) == SplitWsFrom(s, 1, <<>>, <<>>)

IsDigits(part) ==
    Len(part) > 0 /\ \A i \in 1..Len(part) : part[i] \in DigitChars

BadField == [ok |-> FALSE, vals |-> {}]

\* one numeric cron expression: "*", "a", "a-b", each with an optional "/step"
CronExpr(e, lo, hi) ==
    LET ps == SplitAt(e, "/")
    IN IF Len(ps) \notin {1, 2} THEN BadField
       ELSE IF Len(ps) = 2 /\ ~(IsDigits(ps[2]) /\ DigitsVal(ps[2], 0) > 0)
       THEN BadField
       ELSE LET step == IF Len(ps) = 2 THEN DigitsVal(ps[2], 0) ELSE 1
                rs   == SplitAt(ps[1], "-")
            IN IF ps[1] = <<"*">>
               THEN [ok |-> TRUE, vals |-> {v \in lo..hi : (v - lo) % step = 0}]
               ELSE IF Len(rs) \notin {1, 2}
                       \/ \E i \in 1..Len(rs) : ~IsDigits(rs[i])
               THEN BadField
               ELSE LET first == DigitsVal(rs[1], 0)
                        final == IF Len(rs) = 2 THEN DigitsVal(rs[2], 0)
                                 ELSE IF Len(ps) = 2 THEN hi ELSE first
                    IN IF first < lo \/ final > hi \/ first > final
                       THEN BadField
                       ELSE [ok |-> TRUE,
                             vals |-> {v \in first..final :
                                          (v - first) % step = 0}]

\* a cron field: a comma-separated list of expressions
CronField(f, lo, hi) ==
    LET es == SplitAt(f, ",")
        rs == [i \in 1..Len(es) |-> CronExpr(es[i], lo, hi)]
    IN IF \E i \in 1..Len(rs) : ~rs[i].ok THEN BadField
       ELSE [ok |-> TRUE, vals |-> UNION {rs[i].vals : i \in 1..Len(rs)}]

CronRule(sec, min, hr, day, month, dow) ==
    [second |-> sec, minute |-> min, hour |-> hr, day |-> day,
     month |-> month, days |-> dow]

\* CronTrigger.from_crontab(expr): five fields
\* (minute, hour, day, month, day_of_week), anything else is a ValueError
from_crontab(expr) ==
    LET values == SplitWs(expr)
    IN IF Len(values) # 5 THEN Raised("ValueError")
       ELSE LET mi == CronField(values[1], 0, 59)
                hr == CronField(values[2], 0, 23)
                dy == CronField(values[3], 1, 31)
                mo == CronField(values[4], 1, 12)
                dw == CronField(values[5], 0, 6)
            IN IF mi.ok /\ hr.ok /\ dy.ok /\ mo.ok /\ dw.ok
               THEN Built("cron",
                          <<CronRule({0}, mi.vals, hr.vals, dy.vals, mo.vals,
                                     dw.vals)>>, 0, 0)
               ELSE Raised("ValueError")

\* a cron object that would take "every" for a missing second, minute, hour
CronValueEvery(v, default, lo, hi) ==
    IF v.t = "absent" THEN [ok |-> TRUE, vals |-> lo..hi]
    ELSE IF v.t = "int" /\ v.n >= lo /\ v.n <= hi
    THEN [ok |-> TRUE, vals |-> {v.n}]
    ELSE IF v.t = "str" THEN CronField(v.s, lo, hi)
    ELSE BadField

\* an object's value for a cron field: the default when the key is missing
CronValue(v, default, lo, hi) ==
    IF v.t = "absent" THEN [ok |-> TRUE, vals |-> {default}]
    ELSE IF v.t = "int" /\ v.n >= lo /\ v.n <= hi
    THEN [ok |-> TRUE, vals |-> {v.n}]
    ELSE IF v.t = "str" THEN CronField(v.s, lo, hi)
    ELSE BadField

WeekdayNames ==
    <<<<"m", "o", "n">>, <<"t", "u", "e">>, <<"w", "e", "d">>,
      <<"t", "h", "u">>, <<"f", "r", "i">>, <<"s", "a", "t">>,
      <<"s", "u", "n">>>>

IsWeekday(name) == \E i \in 1..7 : WeekdayNames[i] = name

\* the number of a weekday name, monday being 0
WeekdayNo(name) == (CHOOSE i \in 1..7 : WeekdayNames[i] = name) - 1

\* one day_of_week expression given by names: "mon" or "mon-sat"
WeekdayExpr(e) ==
    LET rs == SplitAt(e, "-")
    IN IF Len(rs) \notin {1, 2} \/ \E i \in 1..Len(rs) : ~IsWeekday(rs[i])
       THEN BadField
       ELSE IF WeekdayNo(rs[1]) > WeekdayNo(rs[Len(rs)]) THEN BadField
       ELSE [ok |-> TRUE, vals |-> WeekdayNo(rs[1])..WeekdayNo(rs[Len(rs)])]

\* CronTrigger(day_of_week=...): None is every day, a text is a comma list
\* of weekday names, name ranges or numeric expressions
DowField(v) ==
    IF v.t \in {"absent", "none"} THEN [ok |-> TRUE, vals |-> AllDays]
    ELSE IF v.t = "int" THEN
        IF v.n \in AllDays THEN [ok |-> TRUE, vals |-> {v.n}] ELSE BadField
    ELSE IF v.t # "str" THEN BadField
    ELSE LET es == SplitAt(v.s, ",")
             rs == [i \in 1..Len(es) |->
                       IF WeekdayExpr(es[i]).ok THEN WeekdayExpr(es[i])
                       ELSE CronExpr(es[i], 0, 6)]
         IN IF \E i \in 1..Len(rs) : ~rs[i].ok THEN BadField
            ELSE [ok |-> TRUE, vals |-> UNION {rs[i].vals : i \in 1..Len(rs)}]

CronBranch(cron_spec) ==
    IF cron_spec.form = "str"
    THEN LET fields == SplitWs(Strip(cron_spec.text))
         IN IF Len(fields) \notin {5, 6} THEN Raised("ValueError")
            ELSE from_crontab(cron_spec.text)
    ELSE IF cron_spec.form = "dict"
    THEN IF \E k \in CronKeys :
               cron_spec.fields[k].t # "absent" /\ k \notin CronAllowed
         THEN Raised("ValueError")
         ELSE LET se == CronValue(cron_spec.fields["second"], 0, 0, 59)
                  mi == CronValue(cron_spec.fields["minute"], 0, 0, 59)
                  hr == CronValue(cron_spec.fields["hour"], 0, 0, 23)
                  dw == DowField(cron_spec.fields["day_of_week"])
              IN IF se.ok /\ mi.ok /\ hr.ok /\ dw.ok
                 THEN Built("cron",
                            <<CronRule(se.vals, mi.vals, hr.vals, 1..31, 1..12,
                                       dw.vals)>>, 0, 0)
                 ELSE Raised("ValueError")
    ELSE Raised("ValueError")

\* ---------- date ----------
\* run_at is an epoch number, an ISO-8601 text or a text fromisoformat rejects
DateBranch(dspec) ==
    IF dspec.run_at = "none" THEN Raised("ValueError")
    ELSE IF dspec.run_at \in {"epoch", "iso"} THEN Built("date", NoRules, 0, 0)
    ELSE Raised("ValueError")

\* ---------- the whole function ----------
\* the first key that is set, whatever else is set
PresentFirst(td) ==
    LET p == SelectSeq(TriggerKinds, LAMBDA k : td[k].given = "set")
    IN IF p = <<>> THEN p ELSE <<p[1]>>

\* present = [k for k in (...) if k in trig_def and trig_def[k] is not None]
Present(td) ==
    SelectSeq(TriggerKinds, LAMBDA k : td[k].given = "set")

_build_trigger(td) ==
    IF td.shape # "dict" THEN Raised("ValueError")
    ELSE LET present == Present(td)
         IN IF Len(present) # 1 THEN Raised("ValueError")
            ELSE CASE present[1] = "interval"   -> IntervalBranch(td.interval)
                   [] present[1] = "cron"       -> CronBranch(td.cron)
                   [] present[1] = "date"       -> DateBranch(td.date)
                   [] present[1] = "daily_time" -> DailyTimeBranch(td.daily_time)

(***************************************************************************)
(* Dedup store: modules/career_watch/lib/db.py                             *)
(***************************************************************************)
\* Largest number of filter_new calls one caller makes in a row.
MaxCalls == 3
\* Largest number of filter_new calls two concurrent callers make altogether.
MaxConcCalls == 2
\* Longest posting list handed to one filter_new call.
MaxBatch == 2

Procs == {1, 2}

Other(p) == IF p = 1 THEN 2 ELSE 1

\* models.Posting
Posting(source, person_env, title, url) ==
    [source |-> source, person_env |-> person_env, title |-> title, url |-> url]

\* the columns of the unique index ux_postings_dedupe
Fp(row) == <<row.source, row.person, row.title, row.url>>

\* a key built from the fields as given
KeyOfRaw(person_env, post) ==
    <<post.source, person_env, post.title, post.url>>

\* the key filter_new builds for a posting: stripped fields, the run's person
KeyOf(person_env, post) ==
    <<Strip(post.source), Strip(person_env), Strip(post.title), Strip(post.url)>>

\* a returned posting's own fingerprint, compared after trimming
FpOfPosting(post) ==
    <<Strip(post.source), Strip(post.person_env), Strip(post.title),
      Strip(post.url)>>

\* INTEGER PRIMARY KEY: one more than the largest rowid in use
NextId(visible) ==
    IF visible = {} THEN 1
    ELSE 1 + (CHOOSE n \in {r.id : r \in visible} :
                  \A r \in visible : r.id <= n)

MakeRow(visible, key, ts) ==
    [id |-> NextId(visible), source |-> key[1], person |-> key[2],
     title |-> key[3], url |-> key[4], first_seen_utc |-> ts]

\* an INSERT into a table without the unique index: never ignored
InsertAlways(visible, key, ts) ==
    [rowcount |-> 1, rows |-> visible \cup {MakeRow(visible, key, ts)}]

\* INSERT OR IGNORE under the unique index on (source, person, title, url)
InsertOrIgnore(visible, key, ts) ==
    IF \E r \in visible : Fp(r) = key
    THEN [rowcount |-> 0, rows |-> visible]
    ELSE [rowcount |-> 1, rows |-> visible \cup {MakeRow(visible, key, ts)}]

\* the object appended to new_items for an inserted posting
NewItem(person_env, post) ==
    IF post.person_env # Strip(person_env)
    THEN Posting(Strip(post.source), Strip(person_env), Strip(post.title),
                 Strip(post.url))
    ELSE post

\* leaving the connection's `with` block on an exception without rolling back
KeepPartial(committed, pending) == committed \cup pending

\* leaving the connection's `with` block on an exception: ROLLBACK
Rollback(committed, pending) == committed

\* conn.commit()
\* a commit that leaves only the transaction's own rows in the table
CommitReplacing(committed, pending) == pending

Commit(committed, pending) == committed \cup pending

\* ---- inputs ----
TxtS  == <<"s">>
TxtT  == <<"t">>
TxtSb == <<"s", " ">>
TxtA  == <<"a">>
TxtbA == <<" ", "a">>
TxtB  == <<"b">>
TxtU  == <<"u">>
TxtP  == <<"p">>
TxtPb == <<"p", " ">>

PostA  == Posting(TxtS, TxtP, TxtA, TxtU)
PostA2 == Posting(TxtSb, TxtP, TxtbA, TxtU)
PostB  == Posting(TxtS, TxtP, TxtB, TxtU)

StorePostings == {PostA, PostA2, PostB}
StorePersons  == {TxtPb}

\* what the two concurrent callers pass
ConcPostings == {PostA2, PostB}

\* every fingerprint a call of the model can produce, in trimmed form
AllKeys ==
    {<<so, TxtP, ti, TxtU>> : so \in {TxtS, TxtT}, ti \in {TxtA, TxtB}}

NoRecord ==
    [person_env |-> <<>>, postings |-> <<>>, status |-> "none", new |-> <<>>,
     before_n |-> 0, after_n |-> 0, same_as_prev |-> FALSE, prev_after_n |-> 0]

NoCall == [person_env |-> <<>>, postings |-> <<>>, ts |-> 0]

StoreInit ==
    /\ rows = {}
    /\ db_lock = 0
    /\ schema = FALSE
    /\ pc = [p \in Procs |-> "idle"]
    /\ call = [p \in Procs |-> NoCall]
    /\ idx = [p \in Procs |-> 1]
    /\ new_items = [p \in Procs |-> <<>>]
    /\ txn = [p \in Procs |-> {}]
    /\ snap = [p \in Procs |-> {}]
    /\ overlapped = [p \in Procs |-> FALSE]
    /\ ncalls = 0
    /\ returned = [k \in AllKeys |-> 0]
    /\ last = NoRecord

Running(p) == pc[p] \in {"begin", "insert"}

\* the record kept of a completed call; same_as_prev tells that the call
\* completed before it had returned and had the same arguments, prev_after_n
\* is the row count that earlier call left
CallRecord(p, status, items, before, after) ==
    [person_env |-> call[p].person_env, postings |-> call[p].postings,
     status |-> status, new |-> items,
     before_n |-> Cardinality(before), after_n |-> Cardinality(after),
     same_as_prev |-> /\ last.status = "returned"
                      /\ last.person_env = call[p].person_env
                      /\ last.postings = call[p].postings,
     prev_after_n |-> last.after_n]

\* filter_new(sqlite_path, person_env, postings) is entered: init_db creates
\* the table and its unique index if absent, then ts = now_iso()
CallFilterNew(p, limit, persons, posts) ==
    /\ pc[p] \in {"idle", "returned", "raised"}
    /\ ncalls < limit
    /\ \E pe \in persons, ps \in SeqsUpTo(posts, MaxBatch) :
          call' = [call EXCEPT ![p] =
                     [person_env |-> pe, postings |-> ps, ts |-> ncalls + 1]]
    /\ schema' = TRUE
    /\ pc' = [pc EXCEPT ![p] = "begin"]
    /\ idx' = [idx EXCEPT ![p] = 1]
    /\ new_items' = [new_items EXCEPT ![p] = <<>>]
    /\ snap' = [snap EXCEPT ![p] = rows]
    /\ overlapped' = [q \in Procs |->
                        IF q = p THEN Running(Other(p))
                        ELSE overlapped[q] \/ Running(q)]
    /\ ncalls' = ncalls + 1
    /\ UNCHANGED <<rows, db_lock, txn, returned, last>>
    /\ UNCHANGED <<trigVars, engVars, svcVars>>

\* a transaction begun without waiting for the write lock
BeginNoLock(p) ==
    /\ pc[p] = "begin"
    /\ db_lock' = p
    /\ txn' = [txn EXCEPT ![p] = {}]
    /\ pc' = [pc EXCEPT ![p] = "insert"]
    /\ UNCHANGED <<rows, schema, call, idx, new_items, snap, overlapped,
                   ncalls, returned, last>>
    /\ UNCHANGED <<trigVars, engVars, svcVars>>

\* BEGIN IMMEDIATE takes the write lock
BeginImmediate(p) ==
    /\ pc[p] = "begin"
    /\ db_lock = 0
    /\ db_lock' = p
    /\ txn' = [txn EXCEPT ![p] = {}]
    /\ pc' = [pc EXCEPT ![p] = "insert"]
    /\ UNCHANGED <<rows, schema, call, idx, new_items, snap, overlapped,
                   ncalls, returned, last>>
    /\ UNCHANGED <<trigVars, engVars, svcVars>>

\* BEGIN IMMEDIATE gives up after the busy timeout: the error is logged and
\* raised to the caller
BeginTimeout(p) ==
    /\ pc[p] = "begin"
    /\ db_lock \notin {0, p}
    /\ pc' = [pc EXCEPT ![p] = "raised"]
    /\ last' = CallRecord(p, "raised", <<>>, rows, rows)
    /\ UNCHANGED <<rows, db_lock, schema, call, idx, new_items, txn, snap,
                   overlapped, ncalls, returned>>
    /\ UNCHANGED <<trigVars, engVars, svcVars>>

\* one turn of the loop over the batch
InsertPosting(p) ==
    /\ pc[p] = "insert"
    /\ idx[p] <= Len(call[p].postings)
    /\ LET post == call[p].postings[idx[p]]
           res  == InsertOrIgnore(rows \cup txn[p],
                                  KeyOf(call[p].person_env, post),
                                  call[p].ts)
       IN /\ txn' = [txn EXCEPT ![p] = res.rows \ rows]
          /\ new_items' = [new_items EXCEPT ![p] =
                IF res.rowcount = 1
                THEN Append(@, NewItem(call[p].person_env, post))
                ELSE @]
    /\ idx' = [idx EXCEPT ![p] = @ + 1]
    /\ UNCHANGED <<rows, db_lock, schema, pc, call, snap, overlapped, ncalls,
                   returned, last>>
    /\ UNCHANGED <<trigVars, engVars, svcVars>>

\* conn.commit() after the loop; the call returns new_items
CommitAndReturn(p) ==
    /\ pc[p] = "insert"
    /\ idx[p] > Len(call[p].postings)
    /\ rows' = Commit(rows, txn[p])
    /\ db_lock' = 0
    /\ txn' = [txn EXCEPT ![p] = {}]
    /\ pc' = [pc EXCEPT ![p] = "returned"]
    /\ returned' = [k \in AllKeys |->
          returned[k] + Cardinality({i \in 1..Len(new_items[p]) :
                                        FpOfPosting(new_items[p][i]) = k})]
    /\ last' = CallRecord(p, "returned", new_items[p], rows, rows')
    /\ UNCHANGED <<schema, call, idx, new_items, snap, overlapped, ncalls>>
    /\ UNCHANGED <<trigVars, engVars, svcVars>>

\* an exception inside the transaction (a statement or the commit fails):
\* the connection's context manager rolls back, the error is logged and raised
FailInTransaction(p) ==
    /\ pc[p] = "insert"
    /\ rows' = Rollback(rows, txn[p])
    /\ db_lock' = 0
    /\ txn' = [txn EXCEPT ![p] = {}]
    /\ pc' = [pc EXCEPT ![p] = "raised"]
    /\ last' = CallRecord(p, "raised", <<>>, rows, rows')
    /\ UNCHANGED <<schema, call, idx, new_items, snap, overlapped, ncalls,
                   returned>>
    /\ UNCHANGED <<trigVars, engVars, svcVars>>

\* no trigger description is being compiled
TrigIdle ==
    /\ trig_def = EmptyTrigDef
    /\ compiled = NotCompiled
    /\ fire_times = <<>>

StoreIdleTrigger == TrigIdle /\ SvcIdle

\* one caller issuing filter_new calls one after another
NextStore ==
    \/ CallFilterNew(1, MaxCalls, StorePersons, StorePostings)
    \/ BeginImmediate(1)
    \/ InsertPosting(1)
    \/ CommitAndReturn(1)
    \/ FailInTransaction(1)

\* two callers (threads or processes) sharing the database file
NextStoreConc ==
    \/ \E p \in Procs :
          CallFilterNew(p, MaxConcCalls, StorePersons, ConcPostings)
    \/ \E p \in Procs : BeginImmediate(p)
    \/ \E p \in Procs : BeginTimeout(p)
    \/ \E p \in Procs : InsertPosting(p)
    \/ \E p \in Procs : CommitAndReturn(p)
    \/ \E p \in Procs : FailInTransaction(p)

(***************************************************************************)
(* C2, C3, C9, C10: the dedup store                                        *)
(***************************************************************************)
FpsOf(rs) == {Fp(r) : r \in rs}

ItemFps(items) == [i \in 1..Len(items) |-> FpOfPosting(items[i])]

\* the trimmed fingerprint a call with this person gives a posting
TrimmedKey(person_env, post) ==
    <<Strip(post.source), Strip(person_env), Strip(post.title), Strip(post.url)>>

\* C2: over any sequence of filter_new calls on one store, every fingerprint,
\* compared after trimming, is returned as new at most once in total (also
\* when it occurs several times in one batch), and no returned posting has a
\* trimmed fingerprint that already had a row when the call started.
C2_NewAtMostOnce ==
    /\ \A k \in AllKeys : returned[k] <= 1
    /\ pc[1] = "returned" =>
          \A i \in 1..Len(new_items[1]) :
              /\ FpOfPosting(new_items[1][i]) \in AllKeys
              /\ FpOfPosting(new_items[1][i]) \notin FpsOf(snap[1])

\* a batch holding a fingerprint twice, differing in blanks only, on a store
\* that already has its row: nothing is returned
C2_Witness ==
    /\ pc[1] = "returned"
    /\ call[1].postings = <<PostA2, PostA>>
    /\ call[1].person_env = TxtPb
    /\ TrimmedKey(TxtPb, PostA) \in FpsOf(snap[1])
    /\ new_items[1] = <<>>
    /\ returned[TrimmedKey(TxtPb, PostA)] = 1

\* fingerprints of a list in order of first occurrence
RECURSIVE FirstKeys(_, _, _)
FirstKeys(person_env, posts, seen) ==
    IF posts = <<>> THEN <<>>
    ELSE LET k == TrimmedKey(person_env, Head(posts))
         IN IF k \in seen THEN FirstKeys(person_env, Tail(posts), seen)
            ELSE <<k>> \o FirstKeys(person_env, Tail(posts), seen \cup {k})

\* C3: on an empty store a filter_new call with a non-empty list returns one
\* posting per distinct fingerprint of the list (a non-empty result); a call
\* repeating the arguments of the call completed just before it returns an
\* empty list and leaves the row count where that call left it.
C3_SecondCallEmpty ==
    /\ (last.status = "returned" /\ last.before_n = 0 /\ last.postings # <<>>) =>
          /\ ItemFps(last.new) = FirstKeys(last.person_env, last.postings, {})
          /\ last.new # <<>>
          /\ last.after_n = Len(last.new)
    /\ (last.status = "returned" /\ last.same_as_prev) =>
          /\ last.new = <<>>
          /\ last.after_n = last.prev_after_n

\* the third identical call in a row has returned
C3_Witness ==
    /\ ncalls = 3
    /\ last.status = "returned"
    /\ last.same_as_prev
    /\ last.postings = <<PostA, PostB>>
    /\ last.before_n = 2
    /\ last.prev_after_n = 2

\* C9: a filter_new call whose transaction fails raises to its caller and
\* leaves the store with exactly the rows it had before the call, also when
\* postings of the batch had already been inserted; rows of an open
\* transaction are not among the committed rows other readers see.
C9_AllOrNothing ==
    /\ pc[1] = "raised" => rows = snap[1]
    /\ pc[1] = "insert" => rows = snap[1] /\ txn[1] \cap rows = {}

\* a call that failed after one of its postings had been inserted
C9_Witness ==
    /\ pc[1] = "raised"
    /\ idx[1] > 1
    /\ new_items[1] # <<>>
    /\ rows = snap[1]

BatchKeys(p) ==
    {TrimmedKey(call[p].person_env, call[p].postings[i]) :
        i \in 1..Len(call[p].postings)}

ReturnedCount(p, k) ==
    IF pc[p] = "returned"
    THEN Cardinality({i \in 1..Len(new_items[p]) :
                         FpOfPosting(new_items[p][i]) = k})
    ELSE 0

Finished(p) == pc[p] \in {"returned", "raised"}

\* C10: when two filter_new calls on the same store have both finished and
\* at least one of them returned, every fingerprint that is in both batches
\* and had no row when either call started was returned as new by exactly
\* one of the two calls and is stored in exactly one row; no fingerprint is
\* ever stored in two rows.
C10_ConcurrentExactlyOnce ==
    /\ \A r1 \in rows, r2 \in rows : Fp(r1) = Fp(r2) => r1 = r2
    /\ (Finished(1) /\ Finished(2) /\ "returned" \in {pc[1], pc[2]}) =>
          \A k \in BatchKeys(1) \cap BatchKeys(2) :
              k \notin FpsOf(snap[1]) \cup FpsOf(snap[2]) =>
                  /\ ReturnedCount(1, k) + ReturnedCount(2, k) = 1
                  /\ Cardinality({r \in rows : Fp(r) = k}) = 1

\* two overlapping calls with a common fingerprint have both returned
C10_Witness ==
    /\ pc[1] = "returned" /\ pc[2] = "returned"
    /\ overlapped[1] /\ overlapped[2]
    /\ snap[1] = {} /\ snap[2] = {}
    /\ BatchKeys(1) \cap BatchKeys(2) # {}
    /\ new_items[2] # <<>>

(***************************************************************************)
(* C11                                                                     *)
(***************************************************************************)
\* C11: the postings table is append-only: every step of init_db and
\* filter_new (the only way run_once reaches the table) keeps each row that
\* was there with all its fields, first_seen_utc included, so the set of
\* rows only grows; and no two rows have the same
\* (source, person, title, url).
C11_AppendOnly ==
    /\ [][rows \subseteq rows']_vars
    /\ [](\A r1 \in rows, r2 \in rows : Fp(r1) = Fp(r2) => r1 = r2)

\* a call whose postings were all stored already has returned and left the
\* table exactly as it found it
C11_Witness ==
    /\ pc[1] = "returned"
    /\ snap[1] # {}
    /\ BatchKeys(1) \subseteq FpsOf(snap[1])
    /\ rows = snap[1]
    /\ new_items[1] = <<>>

(***************************************************************************)
(* Scrape orchestration: modules/career_watch/lib/engine.py                *)
(***************************************************************************)
\* Largest number of run_once calls in one behaviour.
MaxRuns == 2
\* Largest max_threads setting tried.
MaxThreadsSetting == 2

\* the configured scraper kinds, in the order group_by_kind yields them
Kinds == <<"k1", "k2">>

KindSet == Range(Kinds)

KindPos(k) == CHOOSE i \in 1..Len(Kinds) : Kinds[i] = k

\* by_kind: the sources of the specs of each kind
SpecsOf(k) == IF k = "k1" THEN <<TxtS>> ELSE <<TxtT, TxtS>>

EngPerson == TxtP

\* the item lists a scraper may find for the i-th spec of a kind
ItemMenu(k, i) ==
    IF k = "k1"
    THEN {<<>>, <<Posting(TxtS, EngPerson, TxtA, TxtU)>>,
          <<Posting(TxtS, EngPerson, TxtA, TxtU),
            Posting(TxtSb, EngPerson, TxtbA, TxtU)>>}
    ELSE IF i = 1
    THEN {<<>>, <<Posting(TxtT, EngPerson, TxtA, TxtU)>>}
    ELSE {<<>>, <<Posting(TxtS, EngPerson, TxtB, TxtU)>>}

\* models.ScrapeResult
ScrapeResult(source, items) == [source |-> source, items |-> items]

NoSettings ==
    [skip_network |-> FALSE, email_all_even_if_seen |-> FALSE,
     ingest_only_no_email |-> FALSE, max_threads |-> 1]

EmptyMap == [src \in {} |-> <<>>]

NoOutcome == [kind |-> "pending", rendered |-> EmptyMap, new_total |-> 0,
              new |-> <<>>]

EngineInit ==
    /\ eng_pc = "idle"
    /\ settings = NoSettings
    /\ task = [k \in KindSet |-> "none"]
    /\ spec_i = [k \in KindSet |-> 0]
    /\ task_out = [k \in KindSet |-> <<>>]
    /\ collected = {}
    /\ all_results = <<>>
    /\ resolved = {}
    /\ eng_before = {}
    /\ outcome = NoOutcome
    /\ nruns = 0
    /\ dedupe_calls = 0
    /\ summaries = 0

InitStore == StoreIdleTrigger /\ StoreInit /\ EngineInit

SpecStore == InitStore /\ [][NextStore]_vars

SpecStoreConc == InitStore /\ [][NextStoreConc]_vars

\* a pool with a worker for every kind whatever max_threads says
MaxWorkersPerKind(st) == Len(Kinds)

\* a barrier that lets the merge start once some future has been handled
AllCollectedSome == eng_pc = "fan_out" /\ collected # {}

\* ThreadPoolExecutor(max_workers=min(len(by_kind) or 1, settings.max_threads))
MaxWorkers(st) ==
    LET n == IF Len(Kinds) = 0 THEN 1 ELSE Len(Kinds)
    IN IF n < st.max_threads THEN n ELSE st.max_threads

Executing == {k \in KindSet : task[k] = "running"}

\* a skip check that never short-circuits
NeverShortCircuit(st) == FALSE

\* _run_kind: `if settings.skip_network` returns before any scraper lookup
ShortCircuit(st) == st.skip_network

\* run_once is entered; one _run_kind future per kind is submitted
StartRun ==
    /\ eng_pc \in {"idle", "done"}
    /\ nruns < MaxRuns
    /\ \E sn \in BOOLEAN, ea \in BOOLEAN, io \in BOOLEAN,
          mt \in 1..MaxThreadsSetting :
          settings' = [skip_network |-> sn, email_all_even_if_seen |-> ea,
                       ingest_only_no_email |-> io, max_threads |-> mt]
    /\ eng_pc' = "fan_out"
    /\ task' = [k \in KindSet |-> "queued"]
    /\ spec_i' = [k \in KindSet |-> 0]
    /\ task_out' = [k \in KindSet |-> <<>>]
    /\ collected' = {}
    /\ all_results' = <<>>
    /\ resolved' = {}
    /\ eng_before' = {}
    /\ outcome' = NoOutcome
    /\ nruns' = nruns + 1
    /\ dedupe_calls' = 0
    /\ summaries' = 0
    /\ UNCHANGED <<trigVars, storeVars, svcVars>>

\* a pool worker takes the oldest queued future and enters _run_kind
CanStart(k) ==
    /\ eng_pc = "fan_out"
    /\ task[k] = "queued"
    /\ Cardinality(Executing) < MaxWorkers(settings)
    /\ \A j \in KindSet : KindPos(j) < KindPos(k) => task[j] # "queued"

\* _run_kind with skip_network: logged, returns (kind, [], 0, True)
SkipKind(k) ==
    /\ CanStart(k)
    /\ ShortCircuit(settings)
    /\ task' = [task EXCEPT ![k] = "returned"]
    /\ UNCHANGED <<eng_pc, settings, spec_i, task_out, collected, all_results,
                   resolved, eng_before, outcome, nruns>>
    /\ UNCHANGED <<trigVars, storeVars, svcVars, runLog>>

\* _run_kind: get_scraper_func(kind) and scraper_cls() succeed; run() starts
ResolveKind(k) ==
    /\ CanStart(k)
    /\ ~ShortCircuit(settings)
    /\ resolved' = resolved \cup {k}
    /\ task' = [task EXCEPT ![k] = "running"]
    /\ UNCHANGED <<eng_pc, settings, spec_i, task_out, collected, all_results,
                   eng_before, outcome, nruns>>
    /\ UNCHANGED <<trigVars, storeVars, svcVars, runLog>>

\* _run_kind: the registry lookup or the scraper construction raises
ResolveFails(k) ==
    /\ CanStart(k)
    /\ ~ShortCircuit(settings)
    /\ resolved' = resolved \cup {k}
    /\ task' = [task EXCEPT ![k] = "raised"]
    /\ UNCHANGED <<eng_pc, settings, spec_i, task_out, collected, all_results,
                   eng_before, outcome, nruns>>
    /\ UNCHANGED <<trigVars, storeVars, svcVars, runLog>>

\* scraper.run handles its next spec; after the last one _run_kind returns
ScrapeSpec(k) ==
    /\ eng_pc = "fan_out"
    /\ task[k] = "running"
    /\ spec_i[k] < Len(SpecsOf(k))
    /\ \E items \in ItemMenu(k, spec_i[k] + 1) :
          task_out' = [task_out EXCEPT ![k] =
              Append(@, ScrapeResult(SpecsOf(k)[spec_i[k] + 1], items))]
    /\ spec_i' = [spec_i EXCEPT ![k] = @ + 1]
    /\ task' = [task EXCEPT ![k] =
          IF spec_i[k] + 1 = Len(SpecsOf(k)) THEN "returned" ELSE "running"]
    /\ UNCHANGED <<eng_pc, settings, collected, all_results, resolved,
                   eng_before, outcome, nruns>>
    /\ UNCHANGED <<trigVars, storeVars, svcVars, runLog>>

\* scraper.run raises while handling a spec
ScraperRaises(k) ==
    /\ eng_pc = "fan_out"
    /\ task[k] = "running"
    /\ task' = [task EXCEPT ![k] = "raised"]
    /\ UNCHANGED <<eng_pc, settings, spec_i, task_out, collected, all_results,
                   resolved, eng_before, outcome, nruns>>
    /\ UNCHANGED <<trigVars, storeVars, svcVars, runLog>>

\* results taken from a future whatever its end
FutureResultAny(k) == task_out[k]

\* fut.result(): the results of a future that returned; one that raised is
\* caught and logged and adds nothing
FutureResult(k) == IF task[k] = "returned" THEN task_out[k] ELSE <<>>

\* one turn of the as_completed loop
CollectFuture(k) ==
    /\ eng_pc = "fan_out"
    /\ task[k] \in {"returned", "raised"}
    /\ k \notin collected
    /\ collected' = collected \cup {k}
    /\ all_results' = all_results \o FutureResult(k)
    /\ UNCHANGED <<eng_pc, settings, task, spec_i, task_out, resolved,
                   eng_before, outcome, nruns>>
    /\ UNCHANGED <<trigVars, storeVars, svcVars, runLog>>

\* concatenation of the items of the results with a given source
RECURSIVE ItemsOfSource(_, _)
ItemsOfSource(results, src) ==
    IF results = <<>> THEN <<>>
    ELSE (IF Head(results).source = src THEN Head(results).items ELSE <<>>)
         \o ItemsOfSource(Tail(results), src)

\* pre_by_source: setdefault(res.source, []).extend(res.items)
PreBySource(results) ==
    [src \in {results[i].source : i \in 1..Len(results)} |->
        ItemsOfSource(results, src)]

\* all_postings
RECURSIVE AllPostings(_)
AllPostings(results) ==
    IF results = <<>> THEN <<>>
    ELSE Head(results).items \o AllPostings(Tail(results))

\* new_by_source: setdefault(p.source, []).append(p)
NewBySource(new_postings) ==
    [src \in {new_postings[i].source : i \in 1..Len(new_postings)} |->
        SelectSeq(new_postings, LAMBDA q : q.source = src)]

\* sum(len(items) for items in by_source.values())
RECURSIVE SumLens(_, _)
SumLens(by_source, keys) ==
    IF keys = {} THEN 0
    ELSE LET k == CHOOSE x \in keys : TRUE
         IN Len(by_source[k]) + SumLens(by_source, keys \ {k})

\* the whole of filter_new as one transaction over the committed rows
RECURSIVE FilterNewFrom(_, _, _, _, _)
FilterNewFrom(visible, person_env, posts, ts, acc) ==
    IF posts = <<>> THEN [rows |-> visible, new |-> acc]
    ELSE LET res == InsertOrIgnore(visible, KeyOf(person_env, Head(posts)), ts)
         IN FilterNewFrom(res.rows, person_env, Tail(posts), ts,
                IF res.rowcount = 1
                THEN Append(acc, NewItem(person_env, Head(posts)))
                ELSE acc)

FilterNew(committed, person_env, posts, ts) ==
    FilterNewFrom(committed, person_env, posts, ts, <<>>)

ReturnNone(new_postings) ==
    [kind |-> "None", rendered |-> EmptyMap, new_total |-> 0,
     new |-> new_postings]

ReturnHtml(to_render, new_by_source, new_postings) ==
    [kind |-> "html", rendered |-> to_render,
     new_total |-> SumLens(new_by_source, DOMAIN new_by_source),
     new |-> new_postings]

\* a decision that renders whatever was found
DecideRenderFound(st, pre_by_source, new_postings) ==
    LET new_by_source == NewBySource(new_postings) IN
    IF st.ingest_only_no_email THEN ReturnNone(new_postings)
    ELSE IF DOMAIN pre_by_source = {} THEN ReturnNone(new_postings)
    ELSE ReturnHtml(pre_by_source, new_by_source, new_postings)

\* a decision that forgets the ingest-only return
DecideNoIngestOnly(st, pre_by_source, new_postings) ==
    LET new_by_source == NewBySource(new_postings) IN
    IF st.email_all_even_if_seen
    THEN ReturnHtml(pre_by_source, new_by_source, new_postings)
    ELSE IF DOMAIN new_by_source = {} THEN ReturnNone(new_postings)
    ELSE ReturnHtml(new_by_source, new_by_source, new_postings)

\* a decision that renders the new postings in every mode
DecideRenderNew(st, pre_by_source, new_postings) ==
    LET new_by_source == NewBySource(new_postings) IN
    IF st.ingest_only_no_email THEN ReturnNone(new_postings)
    ELSE IF st.email_all_even_if_seen
    THEN ReturnHtml(new_by_source, new_by_source, new_postings)
    ELSE IF DOMAIN new_by_source = {} THEN ReturnNone(new_postings)
    ELSE ReturnHtml(new_by_source, new_by_source, new_postings)

\* run_once after the summary record: ingest-only return, choice of the
\* render set, the no_new return, then rendering and meta
Decide(st, pre_by_source, new_postings) ==
    LET new_by_source == NewBySource(new_postings) IN
    IF st.ingest_only_no_email THEN ReturnNone(new_postings)
    ELSE IF st.email_all_even_if_seen
    THEN ReturnHtml(pre_by_source, new_by_source, new_postings)
    ELSE IF DOMAIN new_by_source = {} THEN ReturnNone(new_postings)
    ELSE ReturnHtml(new_by_source, new_by_source, new_postings)

AllCollected == eng_pc = "fan_out" /\ collected = KindSet

\* the pool has shut down: merge, filter_new, summary record, decision
MergeDedupeDecide ==
    /\ AllCollected
    /\ LET res == FilterNew(rows, EngPerson, AllPostings(all_results), ncalls + 1)
       IN /\ rows' = res.rows
          /\ outcome' = Decide(settings, PreBySource(all_results), res.new)
          /\ returned' = [k \in AllKeys |->
                returned[k] + Cardinality({i \in 1..Len(res.new) :
                                              FpOfPosting(res.new[i]) = k})]
    /\ eng_before' = rows
    /\ ncalls' = ncalls + 1
    /\ dedupe_calls' = dedupe_calls + 1
    /\ summaries' = summaries + 1
    /\ eng_pc' = "done"
    /\ UNCHANGED <<settings, task, spec_i, task_out, collected, all_results,
                   resolved, nruns>>
    /\ UNCHANGED <<trigVars, callerVars, svcVars>>

\* the pool has shut down: merge, then filter_new raises (its transaction is
\* rolled back) and run_once propagates the error from line 128, before the
\* summary record
DedupeFails ==
    /\ AllCollected
    /\ rows' = Rollback(rows, FilterNew(rows, EngPerson,
                                        AllPostings(all_results),
                                        ncalls + 1).rows \ rows)
    /\ outcome' = [kind |-> "raised", rendered |-> EmptyMap, new_total |-> 0,
                   new |-> <<>>]
    /\ eng_before' = rows
    /\ ncalls' = ncalls + 1
    /\ dedupe_calls' = dedupe_calls + 1
    /\ UNCHANGED summaries
    /\ eng_pc' = "done"
    /\ UNCHANGED <<settings, task, spec_i, task_out, collected, all_results,
                   resolved, nruns, returned>>
    /\ UNCHANGED <<trigVars, callerVars, svcVars>>

NextEngine ==
    \/ StartRun
    \/ \E k \in KindSet : SkipKind(k)
    \/ \E k \in KindSet : ResolveKind(k)
    \/ \E k \in KindSet : ResolveFails(k)
    \/ \E k \in KindSet : ScrapeSpec(k)
    \/ \E k \in KindSet : ScraperRaises(k)
    \/ \E k \in KindSet : CollectFuture(k)
    \/ MergeDedupeDecide
    \/ DedupeFails

SpecEngine == InitStore /\ [][NextEngine]_vars

(***************************************************************************)
(* C4 - C8: run_once                                                       *)
(***************************************************************************)
Count(seq, x) == Cardinality({i \in 1..Len(seq) : seq[i] = x})

SameBag(s1, s2) ==
    \A x \in Range(s1) \cup Range(s2) : Count(s1, x) = Count(s2, x)

ReturnedKinds == {k \in KindSet : task[k] = "returned"}

RaisedKinds == {k \in KindSet : task[k] = "raised"}

\* the ScrapeResults of the kinds that returned, in configuration order
RECURSIVE ResultsOfReturned(_)
ResultsOfReturned(i) ==
    IF i > Len(Kinds) THEN <<>>
    ELSE (IF task[Kinds[i]] = "returned" THEN task_out[Kinds[i]] ELSE <<>>)
         \o ResultsOfReturned(i + 1)

\* every posting found in this call
Found == AllPostings(ResultsOfReturned(1))

FoundSources ==
    {ResultsOfReturned(1)[i].source : i \in 1..Len(ResultsOfReturned(1))}

FoundKeys == {TrimmedKey(EngPerson, Found[i]) : i \in 1..Len(Found)}

\* rows this call added to the store
Inserted == rows \ eng_before

EngDone == eng_pc = "done"

\* the call returned (filter_new did not raise)
EngReturned == EngDone /\ outcome.kind \in {"None", "html"}

PlainMode ==
    ~settings.ingest_only_no_email /\ ~settings.email_all_even_if_seen

\* C4: with both mode flags false, run_once returns (html, meta) exactly
\* when this call newly inserted at least one posting, and None when it
\* returns without having inserted any (in particular when every posting
\* found already had a row); meta["new_total"] is the number newly inserted.
C4_HtmlIffNew ==
    (EngDone /\ PlainMode) =>
        /\ outcome.kind = "html" <=> Inserted # {}
        /\ (EngReturned /\ Inserted = {}) => outcome.kind = "None"
        /\ (EngReturned /\ FoundKeys \subseteq FpsOf(eng_before)) =>
              outcome.kind = "None"
        /\ outcome.kind = "html" =>
              /\ outcome.new_total = Cardinality(Inserted)
              /\ FpsOf(Inserted) = FoundKeys \ FpsOf(eng_before)

\* a second run in plain mode that found only postings already stored
C4_Witness ==
    /\ EngReturned /\ PlainMode
    /\ nruns = 2
    /\ Len(Found) >= 2
    /\ FoundKeys \subseteq FpsOf(eng_before)
    /\ outcome.kind = "None"

\* C5: with ingest_only_no_email true, a run_once call that returns returns
\* None whatever email_all_even_if_seen, skip_network and the scrapers'
\* output are, and afterwards every fingerprint found has a row.
C5_IngestOnlyNone ==
    (EngReturned /\ settings.ingest_only_no_email) =>
        /\ outcome.kind = "None"
        /\ FoundKeys \subseteq FpsOf(rows)
        /\ FpsOf(Inserted) = FoundKeys \ FpsOf(eng_before)

\* an ingest-only call, email_all_even_if_seen also set, that stored new rows
C5_Witness ==
    /\ EngReturned
    /\ settings.ingest_only_no_email /\ settings.email_all_even_if_seen
    /\ Inserted # {}
    /\ outcome.kind = "None"

\* C6: with email_all_even_if_seen true and ingest_only_no_email false, a
\* call that found at least one posting returns (html, meta) whose rendered
\* set is the full pre-dedupe view: per source, every posting found, new or
\* not.
C6_EmailAllRendersFound ==
    (EngReturned /\ settings.email_all_even_if_seen
       /\ ~settings.ingest_only_no_email /\ Found # <<>>) =>
        /\ outcome.kind = "html"
        /\ DOMAIN outcome.rendered = FoundSources
        /\ \A src \in FoundSources :
              SameBag(outcome.rendered[src],
                      ItemsOfSource(ResultsOfReturned(1), src))
        /\ outcome.new_total = Cardinality(Inserted)

\* everything found was already stored, and it is rendered all the same
C6_Witness ==
    /\ EngReturned
    /\ settings.email_all_even_if_seen /\ ~settings.ingest_only_no_email
    /\ Len(Found) >= 2
    /\ Inserted = {}
    /\ outcome.kind = "html"

NoScraperTouched ==
    /\ resolved = {}
    /\ \A k \in KindSet : task_out[k] = <<>> /\ task[k] # "running"

\* C7 as claimed: with skip_network true no scraper is resolved or called,
\* nothing is found, and a call that returns returns None in every mode.
C7_SkipNetworkAlwaysNone ==
    /\ (eng_pc # "idle" /\ settings.skip_network) => NoScraperTouched
    /\ (EngReturned /\ settings.skip_network) =>
          /\ Found = <<>>
          /\ outcome.kind = "None"

\* C7 amended: with skip_network true no scraper is resolved or called and
\* nothing is found or stored; a call that returns returns None when
\* ingest_only_no_email is true or email_all_even_if_seen is false, and with
\* email_all_even_if_seen true and ingest_only_no_email false it returns
\* (html, meta) for an empty render set with new_total 0.
C7_SkipNetworkNoScraper ==
    /\ (eng_pc # "idle" /\ settings.skip_network) => NoScraperTouched
    /\ (EngReturned /\ settings.skip_network) =>
          /\ Found = <<>>
          /\ all_results = <<>>
          /\ rows = eng_before
          /\ IF settings.email_all_even_if_seen
                /\ ~settings.ingest_only_no_email
             THEN /\ outcome.kind = "html"
                  /\ DOMAIN outcome.rendered = {}
                  /\ outcome.new_total = 0
             ELSE outcome.kind = "None"

\* a skip_network call in email-all mode has returned
C7_Witness ==
    /\ EngReturned
    /\ settings.skip_network
    /\ settings.email_all_even_if_seen /\ ~settings.ingest_only_no_email
    /\ ReturnedKinds = KindSet
    /\ outcome.kind = "html"

ExpectedKind ==
    IF settings.ingest_only_no_email THEN "None"
    ELSE IF settings.email_all_even_if_seen THEN "html"
    ELSE IF FoundKeys \subseteq FpsOf(eng_before) THEN "None" ELSE "html"

\* C8: when the execution of a kind raised (lookup, construction or run),
\* run_once goes on: the merged results are exactly those of the kinds that
\* returned, the failed kind adds nothing (not even results it had produced
\* before raising), and store and return value are what those results alone
\* give.
C8_FailedKindAddsNothing ==
    (EngDone /\ RaisedKinds # {}) =>
        /\ SameBag(AllPostings(all_results), Found)
        /\ EngReturned =>
              /\ FpsOf(rows) = FpsOf(eng_before) \cup FoundKeys
              /\ outcome.kind = ExpectedKind
              /\ outcome.new_total =
                    IF outcome.kind = "html"
                    THEN Cardinality(FoundKeys \ FpsOf(eng_before)) ELSE 0
              /\ \A src \in DOMAIN outcome.rendered :
                    \A i \in 1..Len(outcome.rendered[src]) :
                        \E j \in 1..Len(Found) :
                            TrimmedKey(EngPerson, outcome.rendered[src][i])
                                = TrimmedKey(EngPerson, Found[j])

\* kind k2 raised after its first spec had produced a posting; k1's posting
\* is rendered
C8_Witness ==
    /\ EngReturned
    /\ task["k2"] = "raised" /\ task_out["k2"] # <<>>
    /\ task_out["k2"][1].items # <<>>
    /\ task["k1"] = "returned"
    /\ Len(Found) = 1
    /\ outcome.kind = "html"
    /\ outcome.new_total = 1

(***************************************************************************)
(* C22, C23, C24                                                           *)
(***************************************************************************)
KindTaskOver(k) == task[k] \in {"returned", "raised"}

\* C22: a run_once call makes no filter_new call while its futures are
\* gathered and exactly one by the time it is over, whatever the mode flags
\* and the outcome; filter_new starts only when every kind task has returned
\* or raised.
C22_DedupeOnceAfterBarrier ==
    /\ [](eng_pc = "fan_out" => dedupe_calls = 0)
    /\ [](eng_pc = "done" => dedupe_calls = 1)
    /\ [][dedupe_calls' > dedupe_calls =>
             \A k \in KindSet : KindTaskOver(k)]_vars

\* a call in email-all mode whose first kind raised and whose second kind
\* returned postings is over: filter_new ran once, after both tasks
C22_Witness ==
    /\ eng_pc = "done"
    /\ dedupe_calls = 1
    /\ settings.email_all_even_if_seen
    /\ task["k1"] = "raised"
    /\ task["k2"] = "returned"
    /\ Len(all_results) = 2
    /\ outcome.kind = "html"

\* C23 as stated: a run_once call that is over has emitted exactly one
\* summary record, whatever the mode flags and the outcome, also when kinds
\* failed and when the store transaction failed.
C23_OneSummaryPerCall ==
    /\ eng_pc = "fan_out" => summaries = 0
    /\ eng_pc = "done" => summaries = 1

\* a call is over because filter_new raised: no summary record was emitted
C23_Witness ==
    /\ eng_pc = "done"
    /\ outcome.kind = "raised"
    /\ dedupe_calls = 1
    /\ summaries = 0
    /\ Len(all_results) > 0

\* the smaller of two numbers, written out
Least(a, b) == IF a <= b THEN a ELSE b

\* C24: during a run_once call at most min(k, max_threads) kind tasks are
\* executing, every kind has its one task, and a task has handled the specs
\* of its kind one after another in their order.
C24_KindTasksCapped ==
    eng_pc = "fan_out" =>
        /\ Cardinality({k \in KindSet : task[k] = "running"})
              <= Least(Cardinality(KindSet), settings.max_threads)
        /\ \A k \in KindSet : task[k] # "none"
        /\ \A k \in KindSet :
              /\ Len(task_out[k]) = spec_i[k]
              /\ \A i \in 1..Len(task_out[k]) :
                    task_out[k][i].source = SpecsOf(k)[i]

\* with max_threads 1 the task of k1 is over, the task of k2 is between its
\* two specs and nothing else runs
C24_Witness ==
    /\ eng_pc = "fan_out"
    /\ settings.max_threads = 1
    /\ task["k1"] = "returned"
    /\ task["k2"] = "running"
    /\ spec_i["k2"] = 1
    /\ Len(task_out["k2"]) = 1

(***************************************************************************)
(* Inputs of the trigger compiler                                          *)
(***************************************************************************)
T0500    == <<"0", "5", ":", "0", "0">>
T050000  == <<"0", "5", ":", "0", "0", ":", "0", "0">>
T0630    == <<"0", "6", ":", "3", "0">>
T0800    == <<"0", "8", ":", "0", "0">>
T120010  == <<"1", "2", ":", "0", "0", ":", "1", "0">>
T120020  == <<"1", "2", ":", "0", "0", ":", "2", "0">>
T9999    == <<"9", "9", ":", "9", "9">>
T0x00    == <<"0", "x", ":", "0", "0">>
T05      == <<"0", "5">>

ValidEntries == {T0500, T050000, T0630, T0800, T120010, T120020}
TimeEntries  == ValidEntries \cup {T9999, T0x00, T05}

DowExprs == {"none", "mon-sat", "sun"}

TimeFields ==
    {[shape |-> "missing", items |-> <<>>]}
    \cup {[shape |-> "str", items |-> <<e>>] : e \in TimeEntries}
    \cup {[shape |-> "list", items |-> l] : l \in SeqsUpTo(TimeEntries, MaxTimes)}

\* a trigger description that sets daily_time only
DailyDef(t, d) ==
    [EmptyTrigDef EXCEPT !.daily_time =
        [given |-> "set", form |-> "dict", unknown |-> FALSE, time |-> t,
         day_of_week |-> d]]

TriggerDefs == {DailyDef(t, d) : t \in TimeFields, d \in DowExprs}

\* wall-clock instants of a week at which a firing is looked for
ClockInstants ==
    [day : AllDays, h : {5, 6, 8, 12}, m : {0, 30}, s : {0, 10, 20}]

InitTrigger ==
    /\ trig_def \in TriggerDefs
    /\ compiled = NotCompiled
    /\ fire_times = <<>>
    /\ StoreInit
    /\ EngineInit
    /\ SvcIdle

\* scheduler.py _build_trigger applied to the description
BuildTrigger ==
    /\ compiled.status = "pending"
    /\ compiled' = _build_trigger(trig_def)
    /\ UNCHANGED <<trig_def, fire_times, storeVars, engVars, svcVars>>

NextTrigger == BuildTrigger

SpecTrigger == InitTrigger /\ [][NextTrigger]_vars

(***************************************************************************)
(* C1                                                                      *)
(***************************************************************************)
\* what each valid entry denotes, written down independently of the parser
Denotes(e) ==
    CASE e = T0500   -> <<5, 0, 0>>
      [] e = T050000 -> <<5, 0, 0>>
      [] e = T0630   -> <<6, 30, 0>>
      [] e = T0800   -> <<8, 0, 0>>
      [] e = T120010 -> <<12, 0, 10>>
      [] e = T120020 -> <<12, 0, 20>>

AllEntriesValid(td) ==
    /\ td.daily_time.time.shape # "missing"
    /\ Len(td.daily_time.time.items) > 0
    /\ \A i \in 1..Len(td.daily_time.time.items) :
          td.daily_time.time.items[i] \in ValidEntries

DenotedTriples(td) ==
    {Denotes(td.daily_time.time.items[i]) :
        i \in 1..Len(td.daily_time.time.items)}

\* C1: a daily_time description with one or more entries, all valid, compiles
\* to a trigger that fires, on each day matching day_of_week, at exactly the
\* distinct (hour, minute, second) triples the entries denote (duplicates
\* count once) and at no other instant; it holds one rule per distinct triple.
C1_DailyTimeExactInstants ==
    (compiled.status # "pending" /\ AllEntriesValid(trig_def)) =>
        /\ compiled.status = "ok"
        /\ Len(compiled.rules) = Cardinality(DenotedTriples(trig_def))
        /\ \A inst \in ClockInstants :
              Fires(compiled, inst) <=>
                  /\ inst.day \in DowDays(trig_def.daily_time.day_of_week)
                  /\ <<inst.h, inst.m, inst.s>> \in DenotedTriples(trig_def)

\* the regression case ["05:00","06:30","08:00"] on mon-sat, compiled
C1_Witness ==
    /\ compiled.status = "ok"
    /\ compiled.type = "or"
    /\ trig_def.daily_time.time.items = <<T0500, T0630, T0800>>
    /\ trig_def.daily_time.day_of_week = "mon-sat"

(***************************************************************************)
(* C30                                                                     *)
(***************************************************************************)
\* the description's daily_time is an object whose time is the empty list
EmptyTimeList(td) ==
    /\ td.daily_time.given = "set"
    /\ td.daily_time.form = "dict"
    /\ ~td.daily_time.unknown
    /\ td.daily_time.time.shape = "list"
    /\ td.daily_time.time.items = <<>>

\* C30 as stated: a daily_time description whose time is an empty list is
\* refused with ValueError, as a missing or invalid time is; no trigger is
\* produced and no other exception is raised.
C30_EmptyTimeListRejected ==
    (compiled.status # "pending" /\ EmptyTimeList(trig_def)) =>
        compiled.status = "ValueError"

\* time: [] was compiled: the result is a combined trigger over no cron
\* trigger at all, which fires at no instant
C30_Witness ==
    /\ EmptyTimeList(trig_def)
    /\ compiled.status = "ok"
    /\ compiled.type = "or"
    /\ compiled.rules = <<>>
    /\ \A inst \in ClockInstants : ~Fires(compiled, inst)

(***************************************************************************)
(* Inputs of the other compiler branches                                   *)
(***************************************************************************)
\* Most whitespace-separated fields of a crontab string the model feeds.
MaxCronFields == 7
\* Most fire times asked of a compiled interval trigger.
MaxFires == 3

Txt2b    == <<" ", "2">>
TxtAbc   == <<"a", "b", "c">>
Star     == <<"*">>
One      == <<"1">>
Every15  == <<"*", "/", "1", "5">>
Zero     == <<"0">>
Nine     == <<"9">>
Range56  == <<"5", "-", "6">>

\* the fields joined by single blanks
RECURSIVE JoinWs(_)
JoinWs(fields) ==
    IF fields = <<>> THEN <<>>
    ELSE IF Len(fields) = 1 THEN fields[1]
    ELSE fields[1] \o <<" ">> \o JoinWs(Tail(fields))

IntervalSpecs ==
    {[k \in IntervalKeys |->
         CASE k = "weeks"      -> w
           [] k = "days"       -> d
           [] k = "hours"      -> h
           [] k = "minutes"    -> m
           [] k = "seconds"    -> s
           [] k = "jitter"     -> j
           [] k = "fortnights" -> f] :
        w \in {PyAbsent, PyInt(0), PyInt(1)},
        d \in {PyAbsent, PyInt(1)},
        h \in {PyAbsent, PyStr(Txt2b), PyInt(-1)},
        m \in {PyAbsent, PyInt(0), PyInt(5), PyStr(TxtAbc)},
        s \in {PyAbsent, PyInt(30), PyNone},
        j \in {PyAbsent, PyInt(0), PyInt(2), PyInt(-1)},
        f \in {PyAbsent, PyInt(1)}}

IntervalDef(fields) ==
    [EmptyTrigDef EXCEPT !.interval =
        [given |-> "set", form |-> "dict", fields |-> fields]]

IntervalDefs ==
    {IntervalDef(f) : f \in IntervalSpecs}
    \cup {[EmptyTrigDef EXCEPT !.interval =
              [given |-> "set", form |-> "other",
               fields |-> AbsInterval.fields]]}

\* crontab strings whose fields are valid in every position
PlainCronTexts == {JoinWs(f) : f \in SeqsUpTo({Star, One}, MaxCronFields)}

PaddedCronTexts ==
    {<<" ">> \o JoinWs(<<Every15, Star, Star, Star, Star>>) \o <<" ", " ">>,
     JoinWs(<<Star, Star>>) \o <<" ", " ">> \o JoinWs(<<One, Star, Star, Star>>)}

WellFormedCronTexts ==
    PlainCronTexts \cup PaddedCronTexts
    \cup {JoinWs(<<Every15, Star, Star>>),
          JoinWs(<<Every15, Star, Star, Star, Star>>),
          JoinWs(<<Zero, Every15, Star, Star, Star, Star>>),
          JoinWs(<<Zero, Range56, Star, Star, One>>)}

\* crontab strings with a field the parser rejects
BrokenCronTexts ==
    {JoinWs(<<Zero, Zero, Zero, Zero, Zero>>),
     JoinWs(<<Star, Star, Star, Star, Nine>>),
     JoinWs(<<TxtAbc, Star, Star, Star, Star>>)}

CronTexts == WellFormedCronTexts \cup BrokenCronTexts

CronStrDef(text) ==
    [EmptyTrigDef EXCEPT !.cron =
        [given |-> "set", form |-> "str", text |-> text,
         fields |-> AbsCron.fields]]

Txt0and45 == <<"0", ",", "4", "5">>
Txt10and20 == <<"1", "0", ",", "2", "0">>
TxtMonSat == <<"m", "o", "n", "-", "s", "a", "t">>

CronObjs ==
    {[k \in CronKeys |->
         CASE k = "second" -> sc [] k = "minute" -> m [] k = "hour" -> h
           [] k = "day_of_week" -> w [] k = "every" -> e] :
        sc \in {PyAbsent, PyStr(Txt10and20)},
        m \in {PyAbsent, PyInt(30), PyInt(99), PyStr(Txt0and45)},
        h \in {PyAbsent, PyInt(3), PyStr(Range56)},
        w \in {PyAbsent, PyStr(TxtMonSat)},
        e \in {PyAbsent, PyInt(1)}}

CronDefs ==
    {CronStrDef(t) : t \in CronTexts}
    \cup {[EmptyTrigDef EXCEPT !.cron =
              [given |-> "set", form |-> "dict", text |-> <<>>, fields |-> f]] :
            f \in CronObjs}
    \cup {[EmptyTrigDef EXCEPT !.cron =
              [given |-> "set", form |-> "other", text |-> <<>>,
               fields |-> AbsCron.fields]]}

DateDefs ==
    {[EmptyTrigDef EXCEPT !.date =
         [given |-> "set", form |-> f, run_at |-> r]] :
        f \in {"scalar", "dict"}, r \in {"epoch", "iso", "garbage"}}
    \cup {[EmptyTrigDef EXCEPT !.date =
              [given |-> "set", form |-> "dict", run_at |-> "none"]]}

\* one plain value per key, used where only the presence of the keys matters
PlainInterval ==
    [given |-> "set", form |-> "dict",
     fields |-> [AbsInterval.fields EXCEPT !["minutes"] = PyInt(5)]]

PlainCron ==
    [given |-> "set", form |-> "str",
     text |-> JoinWs(<<Every15, Star, Star, Star, Star>>),
     fields |-> AbsCron.fields]

PlainDate == [given |-> "set", form |-> "scalar", run_at |-> "iso"]

PlainDaily ==
    [given |-> "set", form |-> "dict", unknown |-> FALSE,
     time |-> [shape |-> "str", items |-> <<T0500>>], day_of_week |-> "none"]

KeyChoice(abs, plain) == {abs, [abs EXCEPT !.given = "none"], plain}

\* every way of leaving out, nulling or setting each of the four keys
KeyComboDefs ==
    {[shape |-> "dict", interval |-> i, cron |-> c, date |-> d,
      daily_time |-> t] :
        i \in KeyChoice(AbsInterval, PlainInterval),
        c \in KeyChoice(AbsCron, PlainCron),
        d \in KeyChoice(AbsDate, PlainDate),
        t \in KeyChoice(AbsDaily, PlainDaily)}

NotADict == [EmptyTrigDef EXCEPT !.shape = "other"]

CompileDefs ==
    IntervalDefs \cup CronDefs \cup DateDefs \cup KeyComboDefs \cup {NotADict}

InitCompile ==
    /\ trig_def \in CompileDefs
    /\ compiled = NotCompiled
    /\ fire_times = <<>>
    /\ StoreInit
    /\ EngineInit
    /\ SvcIdle

\* IntervalTrigger.get_next_fire_time: the previous fire time plus the
\* period, delayed by at most `jitter` seconds; the first one counts from 0
NextFireTime ==
    /\ compiled.status = "ok"
    /\ compiled.type = "interval"
    /\ Len(fire_times) < MaxFires
    /\ \E delay \in 0..compiled.jitter :
          LET prev == IF fire_times = <<>> THEN 0
                      ELSE fire_times[Len(fire_times)]
          IN fire_times' = Append(fire_times, prev + compiled.interval + delay)
    /\ UNCHANGED <<trig_def, compiled, storeVars, engVars, svcVars>>

NextCompile == BuildTrigger \/ NextFireTime

SpecCompile == InitCompile /\ [][NextCompile]_vars

(***************************************************************************)
(* C12, C18, C19                                                           *)
(***************************************************************************)
\* the trigger kinds a description provides: the key is there and not None
Provided(td) ==
    {k \in {"interval", "cron", "date", "daily_time"} : td[k].given = "set"}

\* C12: _build_trigger returns a trigger only for a description that
\* provides exactly one of interval, cron, date, daily_time; a description
\* providing none of them, or more than one, raises ValueError and yields no
\* trigger.
C12_ExactlyOneKey ==
    compiled.status # "pending" =>
        /\ compiled.status = "ok" =>
              /\ trig_def.shape = "dict"
              /\ Cardinality(Provided(trig_def)) = 1
        /\ (trig_def.shape = "dict" /\ Cardinality(Provided(trig_def)) # 1) =>
              /\ compiled.status = "ValueError"
              /\ compiled.type = "none"

\* a description setting both interval and cron has been refused
C12_Witness ==
    /\ compiled.status = "ValueError"
    /\ trig_def.interval.given = "set"
    /\ trig_def.cron.given = "set"

\* the description provides interval only, as an object
IntervalOnly(td) ==
    /\ td.shape = "dict"
    /\ Provided(td) = {"interval"}
    /\ td.interval.form = "dict"

\* the integer a configured value stands for, written down independently of
\* the compiler's int(): ints stand for themselves, " 2" for 2
StandsForInt(v) == v.t = "int" \/ v = PyStr(Txt2b)

IntMeant(v) == IF v.t = "int" THEN v.n ELSE IF v = PyStr(Txt2b) THEN 2 ELSE 0

CoercesGe0(v) == v.t = "absent" \/ (StandsForInt(v) /\ IntMeant(v) >= 0)

KeysAllowed(fields) ==
    \A k \in DOMAIN fields : fields[k].t # "absent" => k \in IntervalAllowed

UnitsCoerce(fields) == \A k \in Range(IntervalUnits) : CoercesGe0(fields[k])

SomeUnitPositive(fields) ==
    \E k \in Range(IntervalUnits) : IntMeant(fields[k]) > 0

PeriodOf(fields) ==
    (IntMeant(fields["weeks"]) * 7 + IntMeant(fields["days"])) * 86400
    + IntMeant(fields["hours"]) * 3600 + IntMeant(fields["minutes"]) * 60
    + IntMeant(fields["seconds"])

\* the distances between successive fire times
Gaps == {fire_times[i + 1] - fire_times[i] : i \in 1..(Len(fire_times) - 1)}

\* C18 as stated: an interval trigger compiles exactly when its keys are
\* allowed, every provided unit coerces to an integer >= 0 and some unit is
\* > 0; its period is (weeks*7+days)*86400 + hours*3600 + minutes*60 + seconds
\* and successive fire times are exactly one period apart.
C18_IntervalIffUnits ==
    (compiled.status # "pending" /\ IntervalOnly(trig_def)) =>
        LET f == trig_def.interval.fields
        IN /\ compiled.status = "ok" <=>
                 (KeysAllowed(f) /\ UnitsCoerce(f) /\ SomeUnitPositive(f))
           /\ compiled.status = "ok" =>
                 /\ compiled.interval = PeriodOf(f)
                 /\ \A g \in Gaps : g = PeriodOf(f)

\* C18 amended: compilation also needs jitter, when given, to coerce to an
\* integer >= 0; the period is as stated; successive fire times are one
\* period apart when the jitter is 0 and otherwise between one period and
\* one period plus jitter seconds apart.
C18_IntervalIffUnitsAndJitter ==
    (compiled.status # "pending" /\ IntervalOnly(trig_def)) =>
        LET f == trig_def.interval.fields
        IN /\ compiled.status = "ok" <=>
                 /\ KeysAllowed(f)
                 /\ UnitsCoerce(f)
                 /\ SomeUnitPositive(f)
                 /\ CoercesGe0(f["jitter"])
           /\ compiled.status = "ok" =>
                 /\ compiled.interval = PeriodOf(f)
                 /\ compiled.jitter = IntMeant(f["jitter"])
                 /\ \A g \in Gaps :
                       /\ g >= PeriodOf(f)
                       /\ g <= PeriodOf(f) + IntMeant(f["jitter"])

\* weeks 1, days 1, hours " 2", minutes 5, seconds 30 with jitter 2 compiled
\* to a period of 698730 s, and two fire times lie 698731 s apart
C18_Witness ==
    /\ compiled.status = "ok"
    /\ compiled.interval = 698730
    /\ trig_def.interval.fields["jitter"] = PyInt(2)
    /\ Len(fire_times) >= 2
    /\ fire_times[2] - fire_times[1] = 698731

\* the description provides cron only, as a crontab string
CronStringOnly(td) ==
    /\ td.shape = "dict"
    /\ Provided(td) = {"cron"}
    /\ td.cron.form = "str"

\* the whitespace-separated fields of a text: its runs of non-blank characters
FieldCount(s) ==
    Cardinality({i \in 1..Len(s) : s[i] # " " /\ (i = 1 \/ s[i - 1] = " ")})

\* C19 as stated: a crontab string with exactly 5 or exactly 6 valid fields
\* compiles, and a string with any other number of fields raises ValueError.
C19_CrontabFiveOrSix ==
    (compiled.status # "pending" /\ CronStringOnly(trig_def)) =>
        LET text == trig_def.cron.text
        IN /\ (FieldCount(text) \in {5, 6} /\ text \in WellFormedCronTexts) =>
                 compiled.status = "ok"
           /\ FieldCount(text) \notin {5, 6} => compiled.status = "ValueError"

\* the six-field string "0 */15 * * * *" has been refused
C19_Witness ==
    /\ compiled.status = "ValueError"
    /\ CronStringOnly(trig_def)
    /\ trig_def.cron.text = JoinWs(<<Zero, Every15, Star, Star, Star, Star>>)

(***************************************************************************)
(* C25                                                                     *)
(***************************************************************************)
\* wall-clock instants of a week at which a firing of a cron object is
\* looked for
CronInstants ==
    [day : AllDays, h : {0, 3, 5, 6, 7}, m : {0, 30, 45, 46}, s : {0, 10, 20, 21}]

\* the description is a cron object with known keys only
CronObjectOnly(td) ==
    /\ td.shape = "dict"
    /\ Provided(td) = {"cron"}
    /\ td.cron.form = "dict"
    /\ td.cron.fields["every"] = PyAbsent

\* what the values of the cron objects denote, written down by hand: the
\* values an hour, minute or second field lists, 0 when the key is missing
ListedValues(v) ==
    CASE v = PyAbsent          -> {0}
      [] v = PyInt(30)         -> {30}
      [] v = PyInt(3)          -> {3}
      [] v = PyStr(Txt0and45)  -> {0, 45}
      [] v = PyStr(Txt10and20) -> {10, 20}
      [] v = PyStr(Range56)    -> {5, 6}
      [] OTHER                 -> {}

\* the days a day_of_week value matches, every day when the key is missing
MatchingDays(v) ==
    CASE v = PyAbsent         -> 0..6
      [] v = PyStr(TxtMonSat) -> 0..5
      [] OTHER                -> {}

\* every field of the object is missing or within the range of its field
FieldsInRange(td) == td.cron.fields["minute"] # PyInt(99)

MaxJobs == 2

PyBool(b) == [t |-> "bool", n |-> IF b THEN 1 ELSE 0, s |-> <<>>]

UpperChars == <<"A", "B", "C", "D", "E", "F", "G", "H", "I", "J", "K", "L", "M",
                "N", "O", "P", "Q", "R", "S", "T", "U", "V", "W", "X", "Y", "Z">>

LowerChars == <<"a", "b", "c", "d", "e", "f", "g", "h", "i", "j", "k", "l", "m",
                "n", "o", "p", "q", "r", "s", "t", "u", "v", "w", "x", "y", "z">>

\* str.lower()
Lower(s) ==
    [i \in 1..Len(s) |->
        IF \E k \in 1..26 : UpperChars[k] = s[i]
        THEN LowerChars[CHOOSE k \in 1..26 : UpperChars[k] = s[i]]
        ELSE s[i]]

TruthyTexts == {<<"1">>, <<"t", "r", "u", "e">>, <<"y", "e", "s">>, <<"o", "n">>}

FalsyTexts ==
    {<<"0">>, <<"f", "a", "l", "s", "e">>, <<"n", "o">>, <<"o", "f", "f">>}

\* config_schema._to_bool
_to_bool(v) ==
    IF v.t = "bool" THEN [exc |-> "none", val |-> v]
    ELSE IF v.t = "str" /\ Lower(Strip(v.s)) \in TruthyTexts
    THEN [exc |-> "none", val |-> PyBool(TRUE)]
    ELSE IF v.t = "str" /\ Lower(Strip(v.s)) \in FalsyTexts
    THEN [exc |-> "none", val |-> PyBool(FALSE)]
    ELSE [exc |-> "ConfigError", val |-> v]

\* config_schema._to_int: int(value), ValueError turned into ConfigError
_to_int(v, allow_zero) ==
    LET r == PyIntOf(v)
    IN IF r.exc = "ValueError" THEN [exc |-> "ConfigError", val |-> v]
       ELSE IF r.exc # "none" THEN [exc |-> r.exc, val |-> v]
       ELSE IF r.val < 0 \/ (r.val = 0 /\ ~allow_zero)
       THEN [exc |-> "ConfigError", val |-> v]
       ELSE [exc |-> "none", val |-> PyInt(r.val)]

\* the loop body of _apply_top_level_defaults for one job
NormalizeJob(job) ==
    LET b == IF job.coalesce.t = "absent"
             THEN [exc |-> "none", val |-> job.coalesce]
             ELSE _to_bool(job.coalesce)
        n == IF job.max_instances.t = "absent"
             THEN [exc |-> "none", val |-> job.max_instances]
             ELSE _to_int(job.max_instances, FALSE)
    IN IF b.exc # "none" THEN [exc |-> b.exc, job |-> job]
       ELSE IF n.exc # "none" THEN [exc |-> n.exc, job |-> job]
       ELSE [exc |-> "none",
             job |-> [job EXCEPT !.coalesce = b.val, !.max_instances = n.val]]

\* config_schema._apply_top_level_defaults: the normalised jobs, or the
\* exception the first job that cannot be normalised raises
_apply_top_level_defaults(jobs) ==
    LET rs  == [i \in 1..Len(jobs) |-> NormalizeJob(jobs[i])]
        bad == {i \in 1..Len(jobs) : rs[i].exc # "none"}
    IN IF bad # {}
       THEN [exc |-> rs[CHOOSE i \in bad : \A j \in bad : i <= j].exc,
             jobs |-> jobs]
       ELSE [exc |-> "none", jobs |-> [i \in 1..Len(jobs) |-> rs[i].job]]

\* scheduler._require(raw, "module")
ModuleMissing(raw) ==
    raw.module.t \in {"absent", "none"} \/ raw.module = PyStr(<<>>)

\* scheduler._int_or(v, default)
_int_or(v, default) ==
    IF v.t \in {"absent", "none"} THEN default
    ELSE IF PyIntOf(v).exc = "none" THEN PyIntOf(v).val ELSE default

\* bool(raw.get("coalesce", True))
CoalesceOf(v) ==
    CASE v.t = "absent" -> TRUE
      [] v.t = "bool"   -> v.n = 1
      [] v.t = "int"    -> v.n # 0
      [] v.t = "str"    -> v.s # <<>>
      [] OTHER          -> FALSE

JobSpec(id, trigger, module, max_instances, coalesce) ==
    [id |-> id, trigger |-> trigger, module |-> module,
     max_instances |-> max_instances, coalesce |-> coalesce]

NoSpec == JobSpec("", NotCompiled, PyAbsent, 1, TRUE)

\* _make_job_spec once the trigger is compiled: the JobSpec, or the
\* exception _build_trigger raised
SpecWith(raw, trigger) ==
    IF trigger.status # "ok"
    THEN [exc |-> trigger.status, spec |-> NoSpec]
    ELSE [exc |-> "none",
          spec |-> JobSpec(raw.id, trigger, raw.module,
                           _int_or(raw.max_instances, 1),
                           CoalesceOf(raw.coalesce))]

\* scheduler._make_job_spec: the trigger is read from raw["trigger"]
_make_job_spec(raw) ==
    IF ModuleMissing(raw) THEN [exc |-> "ValueError", spec |-> NoSpec]
    ELSE IF ~raw.nested.given THEN [exc |-> "KeyError", spec |-> NoSpec]
    ELSE SpecWith(raw, _build_trigger(raw.nested.def))

\* scheduler.add_job(..., id=spec.id, replace_existing=True)
_add_job(jobs, spec) == {j \in jobs : j.id # spec.id} \cup {spec}

\* the trigger keys a container carries at all, whatever their value
KeysIn(td) ==
    {k \in {"interval", "cron", "date", "daily_time"} : td[k].given # "absent"}

\* config_schema._validate_daily_time: "H:MM" or "HH:MM" within 00:00..23:59
_validate_daily_time(text) ==
    LET parts == SplitColon(Strip(text))
    IN /\ Len(parts) = 2
       /\ IsDigits(parts[1]) /\ Len(parts[1]) \in {1, 2}
       /\ IsDigits(parts[2]) /\ Len(parts[2]) = 2
       /\ DigitsVal(parts[1], 0) <= 23
       /\ DigitsVal(parts[2], 0) <= 59

\* validate(): the light type check of the one trigger key of the container
LightTypeOk(c, k) ==
    /\ c[k].given = "set"
    /\ CASE k = "interval"   -> c[k].form = "dict"
         [] k = "cron"       -> c[k].form \in {"str", "dict"}
         [] k = "date"       -> c[k].form = "scalar"
                                 /\ c[k].run_at \in {"iso", "garbage"}
         [] k = "daily_time" -> c[k].form = "str"

\* validate(): the content checks, made on the job's top-level keys only
TopLevelContentOk(flat) ==
    IF flat.cron.given # "absent"
    THEN flat.cron.given = "set" /\ flat.cron.form = "dict"
    ELSE IF flat.interval.given # "absent"
    THEN /\ flat.interval.given = "set"
         /\ flat.interval.form = "dict"
         /\ \A k \in IntervalKeys :
               flat.interval.fields[k].t # "absent" =>
                   _to_int(flat.interval.fields[k], TRUE).exc = "none"
    ELSE IF flat.date.given # "absent"
    THEN /\ flat.date.given = "set"
         /\ flat.date.form = "scalar"
         /\ flat.date.run_at \in {"iso", "garbage"}
    ELSE IF flat.daily_time.given # "absent"
    THEN /\ flat.daily_time.given = "set"
         /\ flat.daily_time.form = "str"
         /\ flat.daily_time.time.shape = "str"
         /\ _validate_daily_time(flat.daily_time.time.items[1])
    ELSE TRUE

\* config_schema.validate, for one job of the list
ValidateJob(job) ==
    LET container == IF job.nested.given THEN job.nested.def ELSE job.flat
    IN /\ job.module.t = "str" /\ Strip(job.module.s) # <<>>
       /\ job.nested.given => job.nested.def.shape = "dict"
       /\ job.nested.given => KeysIn(job.flat) = {}
       /\ Cardinality(KeysIn(container)) = 1
       /\ LightTypeOk(container, CHOOSE k \in KeysIn(container) : TRUE)
       /\ TopLevelContentOk(job.flat)
       /\ job.coalesce.t # "absent" => _to_bool(job.coalesce).exc = "none"
       /\ job.max_instances.t # "absent" =>
              _to_int(job.max_instances, FALSE).exc = "none"

\* config_schema.validate: ConfigError at the first problem
validate(jobs) ==
    IF /\ \A i \in 1..Len(jobs) : ValidateJob(jobs[i])
       /\ \A i, j \in 1..Len(jobs) : jobs[i].id = jobs[j].id => i = j
    THEN "ok" ELSE "ConfigError"

\* ---- inputs ----
TxtM     == <<"m">>
TxtFalse == <<"F", "a", "l", "s", "e">>
TxtMaybe == <<"m", "a", "y", "b", "e">>

GoodIntervalDef == [EmptyTrigDef EXCEPT !.interval = PlainInterval]
GoodCronDef     == [EmptyTrigDef EXCEPT !.cron = PlainCron]
BadCronDef      == CronStrDef(JoinWs(<<Every15, Star, Star>>))

Nested(def) == [given |-> TRUE, def |-> def]
NotNested   == [given |-> FALSE, def |-> EmptyTrigDef]

RawJob(nested, flat, module, max_instances, coalesce) ==
    [id |-> "", nested |-> nested, flat |-> flat, module |-> module,
     max_instances |-> max_instances, coalesce |-> coalesce]

\* a sound job: module, one nested interval trigger, default policy
GoodJob == RawJob(Nested(GoodIntervalDef), EmptyTrigDef, PyStr(TxtM), PyAbsent,
                  PyAbsent)

JobChoices ==
    {GoodJob,
     [GoodJob EXCEPT !.nested = Nested(GoodCronDef)],
     [GoodJob EXCEPT !.nested = Nested(BadCronDef)],
     [GoodJob EXCEPT !.nested = NotNested, !.flat = GoodIntervalDef],
     [GoodJob EXCEPT !.nested = Nested(GoodCronDef), !.flat = GoodIntervalDef],
     [GoodJob EXCEPT !.nested = NotNested],
     [GoodJob EXCEPT !.module = PyAbsent],
     [GoodJob EXCEPT !.max_instances = PyInt(2)],
     [GoodJob EXCEPT !.max_instances = PyInt(0)],
     [GoodJob EXCEPT !.max_instances = PyStr(TxtAbc)],
     [GoodJob EXCEPT !.coalesce = PyStr(TxtFalse)],
     [GoodJob EXCEPT !.coalesce = PyStr(TxtMaybe)]}

JobIdAt(i) == CASE i = 1 -> "j1" [] i = 2 -> "j2" [] i = 3 -> "j3" [] OTHER -> "j4"

\* jobs lists of up to MaxJobs definitions, each with an id of its own
Configs ==
    {[i \in 1..Len(js) |-> [js[i] EXCEPT !.id = JobIdAt(i)]] :
        js \in SeqsUpTo(JobChoices, MaxJobs)}

InitStart ==
    /\ TrigIdle
    /\ StoreInit
    /\ EngineInit
    /\ cfg_jobs \in Configs
    /\ start_pc = "init"
    /\ job_i = 0
    /\ sched_jobs = {}
    /\ skipped = {}
    /\ start_exc = "none"
    /\ validated = "pending"
    /\ JobsIdle
    /\ CtlIdle
    /\ CmdIdle

\* start(): cfg = config_schema.load_config(config_path)
LoadConfig ==
    /\ start_pc = "init"
    /\ LET r == _apply_top_level_defaults(cfg_jobs)
       IN IF r.exc # "none"
          THEN /\ start_pc' = "raised"
               /\ start_exc' = r.exc
               /\ UNCHANGED <<cfg_jobs, job_i>>
          ELSE /\ cfg_jobs' = r.jobs
               /\ start_pc' = "loop"
               /\ job_i' = 1
               /\ UNCHANGED start_exc
    /\ UNCHANGED <<sched_jobs, skipped, validated>>
    /\ UNCHANGED <<trigVars, storeVars, engVars, cmdVars, jobVars, ctlVars>>

\* start(): what one turn of the loop does with the outcome r of
\* _make_job_spec: log and skip on an exception, _add_job otherwise
Registered(r) ==
    IF r.exc # "none"
    THEN /\ skipped' = skipped \cup {job_i}
         /\ UNCHANGED sched_jobs
    ELSE /\ sched_jobs' = _add_job(sched_jobs, r.spec)
         /\ UNCHANGED skipped

\* start(): one turn of "for raw in jobs_cfg", _make_job_spec then _add_job
RegisterJob ==
    /\ start_pc = "loop"
    /\ job_i <= Len(cfg_jobs)
    /\ Registered(_make_job_spec(cfg_jobs[job_i]))
    /\ job_i' = job_i + 1
    /\ UNCHANGED <<cfg_jobs, start_pc, start_exc, validated>>
    /\ UNCHANGED <<trigVars, storeVars, engVars, cmdVars, jobVars, ctlVars>>

\* start(): scheduler.start() and the controller is returned
SchedulerStart ==
    /\ start_pc = "loop"
    /\ job_i > Len(cfg_jobs)
    /\ start_pc' = "started"
    /\ UNCHANGED <<cfg_jobs, job_i, sched_jobs, skipped, start_exc, validated>>
    /\ UNCHANGED <<trigVars, storeVars, engVars, cmdVars, jobVars, ctlVars>>

\* cli.cmd_validate_config: load_config, then validate
ValidateConfig ==
    /\ validated = "pending"
    /\ LET r == _apply_top_level_defaults(cfg_jobs)
       IN validated' = IF r.exc # "none" THEN r.exc ELSE validate(r.jobs)
    /\ UNCHANGED <<cfg_jobs, start_pc, job_i, sched_jobs, skipped, start_exc>>
    /\ UNCHANGED <<trigVars, storeVars, engVars, cmdVars, jobVars, ctlVars>>

NextStart == LoadConfig \/ RegisterJob \/ SchedulerStart \/ ValidateConfig

SpecStart == InitStart /\ [][NextStart]_vars

(***************************************************************************)
(* C13, C14                                                                *)
(***************************************************************************)
ScheduledIds == {j.id : j \in sched_jobs}

\* the job gives one sound trigger at its top level and no "trigger" key
FlatOnly(job) ==
    ~job.nested.given /\ job.flat \in {GoodIntervalDef, GoodCronDef}

\* the job gives one sound trigger under "trigger" and none at its top level
NestedOnly(job) ==
    /\ job.nested.given
    /\ job.nested.def \in {GoodIntervalDef, GoodCronDef}
    /\ KeysIn(job.flat) = {}

\* the job gives a trigger under "trigger" and another at its top level
Mixed(job) == job.nested.given /\ KeysIn(job.flat) # {}

\* module and policy fields as the configuration surface asks for them
ModuleGiven(job) == job.module = PyStr(TxtM)

PolicyValid(job) ==
    /\ job.max_instances \in {PyAbsent} \cup {PyInt(n) : n \in 1..9}
    /\ job.coalesce \in {PyAbsent, PyBool(TRUE), PyBool(FALSE), PyStr(TxtFalse)}

\* C13 as stated: once start() has run, a job that gives its one trigger at
\* top level is scheduled, with the same compiled trigger as a job giving the
\* same trigger under "trigger"; a job giving a trigger both ways is not
\* scheduled.
C13_FlatSameAsNested ==
    start_pc = "started" =>
        \A i \in 1..Len(cfg_jobs) :
            /\ (FlatOnly(cfg_jobs[i]) /\ ModuleGiven(cfg_jobs[i])
                    /\ PolicyValid(cfg_jobs[i])) =>
                  /\ cfg_jobs[i].id \in ScheduledIds
                  /\ \A k \in 1..Len(cfg_jobs) :
                        (NestedOnly(cfg_jobs[k])
                            /\ cfg_jobs[k].nested.def = cfg_jobs[i].flat) =>
                            \A a \in sched_jobs, b \in sched_jobs :
                                (a.id = cfg_jobs[i].id /\ b.id = cfg_jobs[k].id)
                                    => a.trigger = b.trigger
            /\ Mixed(cfg_jobs[i]) => cfg_jobs[i].id \notin ScheduledIds

\* start() has run on a flattened interval job and its nested twin: the
\* flattened one was skipped, the nested one is scheduled
C13_Witness ==
    /\ start_pc = "started"
    /\ Len(cfg_jobs) = 2
    /\ FlatOnly(cfg_jobs[1]) /\ cfg_jobs[1].flat = GoodIntervalDef
    /\ NestedOnly(cfg_jobs[2]) /\ cfg_jobs[2].nested.def = GoodIntervalDef
    /\ 1 \in skipped
    /\ ScheduledIds = {"j2"}

\* a definition the configuration surface allows: a module, exactly one
\* sound trigger (nested or flattened, not both), sound policy fields
ValidDefinition(job) ==
    /\ ModuleGiven(job)
    /\ PolicyValid(job)
    /\ FlatOnly(job) \/ NestedOnly(job)

\* C14 as stated: start() never fails on a jobs list with invalid
\* definitions; it skips exactly the invalid ones and the started scheduler
\* holds every valid job.
C14_StartSkipsExactlyInvalid ==
    /\ start_pc # "raised"
    /\ start_pc = "started" =>
          /\ ScheduledIds =
                {cfg_jobs[i].id :
                    i \in {n \in 1..Len(cfg_jobs) : ValidDefinition(cfg_jobs[n])}}
          /\ skipped = {n \in 1..Len(cfg_jobs) : ~ValidDefinition(cfg_jobs[n])}

\* start() raised on a list holding a sound job and one with max_instances 0;
\* nothing was scheduled
C14_Witness ==
    /\ start_pc = "raised"
    /\ start_exc = "ConfigError"
    /\ Len(cfg_jobs) = 2
    /\ ValidDefinition(cfg_jobs[1])
    /\ cfg_jobs[2].max_instances = PyInt(0)
    /\ sched_jobs = {}

(***************************************************************************)
(* Job runs: the executor's firings (scheduler._add_job._job_wrapper), the *)
(* RUN command of the IMAP thread (handlers._handle_run) and               *)
(* runner.run_module_once with its worker thread                           *)
(***************************************************************************)
\* run_module_once calls the model follows
MaxInvocations == 2

\* timeout_sec of a job definition: None (written NoneSec), 0, or seconds
NoneSec == 0 - 1

TimeoutChoices == {NoneSec, 0, 30}

\* job_defaults of start(): max_instances of a job that sets none
DefaultMaxInstances == 1

\* "fut.result(timeout=timeout_sec) if timeout_sec else fut.result()"
TimerFor(timeout_sec) ==
    IF timeout_sec # NoneSec /\ timeout_sec # 0 THEN "armed" ELSE "none"

\* a run_module_once call that has submitted _invoke to its pool and waits
\* in fut.result
NewRun(j, origin) ==
    [job |-> j, origin |-> origin, module |-> "running", invoked |-> 1,
     timer |-> TimerFor(timeout_cfg[j]), pc |-> "result", exc |-> "none",
     ok |-> FALSE, emailed |-> FALSE, html_out |-> FALSE, status |-> "none",
     within6h |-> FALSE]

\* the run is between its start and the return of run_module_once
RunExecuting(r) == r.pc # "done"

\* the executor's _instances test for a firing of job j: the firing of a
\* scheduled instance that has timed out holds the slot of job j
HeldByTimedOut(j) ==
    \E i \in 1..Len(runs) :
        /\ runs[i].job = j
        /\ runs[i].origin = "scheduled"
        /\ RunExecuting(runs[i])
        /\ runs[i].timer = "expired"

\* the scheduler fires job j: the executor refuses the firing when the job
\* has max_instances instances running, else _job_wrapper starts and calls
\* run_module_once
Fire(j) ==
    /\ sched_running
    /\ live[j]
    /\ IF instances[j] >= DefaultMaxInstances
       THEN /\ skips' = skips \cup {[job |-> j, timed_out |-> HeldByTimedOut(j)]}
            /\ UNCHANGED <<runs, instances>>
       ELSE /\ Len(runs) < MaxInvocations
            /\ runs' = Append(runs, NewRun(j, "scheduled"))
            /\ instances' = [instances EXCEPT ![j] = @ + 1]
            /\ UNCHANGED skips
    /\ UNCHANGED <<timeout_cfg, resume, live, imap_run>>
    /\ UNCHANGED <<trigVars, storeVars, engVars, cmdVars, startVars, ctlVars>>

\* _handle_run for job j in the IMAP thread: when the job's next firing is
\* within six hours (soon) the job is removed and a date job that will add
\* it again is scheduled for a minute after that firing; then
\* run_module_once is called in this thread
CommandRun(j, soon) ==
    /\ imap_run = 0
    /\ Len(runs) < MaxInvocations
    /\ live' = IF live[j] /\ soon THEN [live EXCEPT ![j] = FALSE] ELSE live
    /\ resume' = IF live[j] /\ soon THEN [resume EXCEPT ![j] = TRUE]
                 ELSE resume
    /\ runs' = Append(runs, [NewRun(j, "command") EXCEPT !.within6h = soon])
    /\ imap_run' = Len(runs) + 1
    /\ UNCHANGED <<timeout_cfg, instances, skips>>
    /\ UNCHANGED <<trigVars, storeVars, engVars, cmdVars, startVars, ctlVars>>

\* the date job delayed_re_add fires: _make_job_spec and _add_job again
ReAdd(j) ==
    /\ sched_running
    /\ ~live[j]
    /\ resume[j]
    /\ live' = [live EXCEPT ![j] = TRUE]
    /\ resume' = [resume EXCEPT ![j] = FALSE]
    /\ UNCHANGED <<timeout_cfg, runs, instances, skips, imap_run>>
    /\ UNCHANGED <<trigVars, storeVars, engVars, cmdVars, startVars, ctlVars>>

\* the date job delayed_re_add starts more than its misfire grace time
\* late (the scheduler's default, one second: a late wake-up, or no free
\* executor worker): the scheduler reports it missed and drops it
ResumeMissed(j) ==
    /\ sched_running
    /\ resume[j]
    /\ resume' = [resume EXCEPT ![j] = FALSE]
    /\ UNCHANGED <<timeout_cfg, runs, instances, live, skips, imap_run>>
    /\ UNCHANGED <<trigVars, storeVars, engVars, cmdVars, startVars, ctlVars>>

\* the worker thread: run_callable(**kw) returns its HTML
ModuleReturns(i) ==
    /\ i \in 1..Len(runs)
    /\ runs[i].module = "running"
    /\ runs' = [runs EXCEPT ![i].module = "returned"]
    /\ UNCHANGED <<timeout_cfg, resume, instances, live, skips, imap_run>>
    /\ UNCHANGED <<trigVars, storeVars, engVars, cmdVars, startVars, ctlVars>>

\* the worker thread: run_callable(**kw) raises
ModuleRaises(i) ==
    /\ i \in 1..Len(runs)
    /\ runs[i].module = "running"
    /\ runs' = [runs EXCEPT ![i].module = "raised"]
    /\ UNCHANGED <<timeout_cfg, resume, instances, live, skips, imap_run>>
    /\ UNCHANGED <<trigVars, storeVars, engVars, cmdVars, startVars, ctlVars>>

\* timeout_sec passes with the module still running: fut.result raises
\* FutureTimeout and control leaves the "with ThreadPoolExecutor" block,
\* whose exit is pool.shutdown(wait=True)
TimeoutExpires(i) ==
    /\ i \in 1..Len(runs)
    /\ runs[i].pc = "result"
    /\ runs[i].timer = "armed"
    /\ runs[i].module = "running"
    /\ runs' = [runs EXCEPT ![i].timer = "expired", ![i].pc = "exit"]
    /\ UNCHANGED <<timeout_cfg, resume, instances, live, skips, imap_run>>
    /\ UNCHANGED <<trigVars, storeVars, engVars, cmdVars, startVars, ctlVars>>

\* the rest of run_module_once for run r, entered once the wait in
\* fut.result (or in the pool's exit) is over: the RunResult, the email, the
\* activity record, and for a scheduled run the record of _job_wrapper
RunFinished(r) ==
    LET timed_out == r.pc = "exit"
        exc == IF timed_out THEN "TimeoutError"
               ELSE IF r.module = "raised" THEN "Exception" ELSE "none"
    IN [r EXCEPT !.pc = "done",
                 !.exc = exc,
                 !.ok = (exc = "none"),
                 !.emailed = (exc = "none"),
                 !.html_out = (exc = "none"),
                 !.status = IF r.origin # "scheduled" THEN "none"
                            ELSE IF exc = "none" THEN "ok" ELSE "error"]

\* run_module_once goes on past the with block, which it can only when the
\* worker thread has finished; the caller gets the result or the exception,
\* the executor releases the instance of a scheduled run, the IMAP thread
\* is free again after a command run
RunnerFinishes(i) ==
    /\ i \in 1..Len(runs)
    /\ runs[i].pc \in {"result", "exit"}
    /\ runs[i].module # "running"
    /\ runs' = [runs EXCEPT ![i] = RunFinished(runs[i])]
    /\ instances' = IF runs[i].origin = "scheduled"
                    THEN [instances EXCEPT ![runs[i].job] = @ - 1]
                    ELSE instances
    /\ imap_run' = IF imap_run = i THEN 0 ELSE imap_run
    /\ UNCHANGED <<timeout_cfg, resume, live, skips>>
    /\ UNCHANGED <<trigVars, storeVars, engVars, cmdVars, startVars, ctlVars>>

InitJobs ==
    /\ TrigIdle
    /\ StoreInit
    /\ EngineInit
    /\ StartIdle
    /\ CtlIdle
    /\ CmdIdle
    /\ timeout_cfg \in [JobIds -> TimeoutChoices]
    /\ runs = <<>>
    /\ instances = [j \in JobIds |-> 0]
    /\ live = [j \in JobIds |-> TRUE]
    /\ skips = {}
    /\ imap_run = 0
    /\ resume = [j \in JobIds |-> FALSE]

RunnerStep == \E i \in 1..MaxInvocations : RunnerFinishes(i)

TimerStep == \E i \in 1..MaxInvocations : TimeoutExpires(i)

\* the scheduler thread reaches a due resume job: it runs, or it is missed
ResumeStep == \E j \in JobIds : ReAdd(j) \/ ResumeMissed(j)

NextJobs ==
    \/ \E j \in JobIds : Fire(j)
    \/ \E j \in JobIds, soon \in BOOLEAN : CommandRun(j, soon)
    \/ ResumeStep
    \/ \E i \in 1..MaxInvocations : ModuleReturns(i)
    \/ \E i \in 1..MaxInvocations : ModuleRaises(i)
    \/ TimerStep
    \/ RunnerStep

SpecJobs == InitJobs /\ [][NextJobs]_vars

\* the runner's own steps and the passing of time happen; nothing obliges
\* a module to finish
SpecJobsFair == SpecJobs /\ WF_vars(RunnerStep) /\ WF_vars(TimerStep)

\* as above, and a running scheduler gets to the resume jobs that are due
SpecResumeFair == SpecJobsFair /\ WF_vars(ResumeStep)

(***************************************************************************)
(* C15, C16, C17                                                           *)
(***************************************************************************)
\* run i exists and its timeout_sec passed while its module was running
Expired(i) == i <= Len(runs) /\ runs[i].timer = "expired"

\* run_module_once of run i has raised TimeoutError to its caller
TimeoutReported(i) ==
    i <= Len(runs) /\ runs[i].pc = "done" /\ runs[i].exc = "TimeoutError"

\* nothing of a timed-out run is emailed or returned
Discarded ==
    \A i \in 1..Len(runs) :
        runs[i].timer = "expired" => ~runs[i].emailed /\ ~runs[i].html_out

\* C15 as stated: once timeout_sec has expired on a running module,
\* run_module_once reports TimeoutError to its caller whether or not the
\* module's thread ever finishes, and what that thread returns is never
\* emailed and never returned.
C15_AbandonsAtExpiry ==
    /\ []Discarded
    /\ \A i \in 1..MaxInvocations : Expired(i) ~> TimeoutReported(i)

\* the timeout of a scheduled run has expired, its module is still running
\* and run_module_once is waiting in the exit of its pool
C15_Witness ==
    \E i \in 1..Len(runs) :
        /\ runs[i].origin = "scheduled"
        /\ runs[i].timer = "expired"
        /\ runs[i].module = "running"
        /\ runs[i].pc = "exit"
        /\ TimerFor(timeout_cfg[runs[i].job]) = "armed"

\* C16 as stated: a scheduled firing whose run timed out is recorded as
\* failed (ok = false, job status "error") with its module invoked once, the
\* scheduler keeps running, and no later firing of that job is refused on
\* account of the timed-out run.
C16_TimeoutRecordedNotFatal ==
    /\ \A i \in 1..Len(runs) :
          (runs[i].origin = "scheduled" /\ runs[i].timer = "expired") =>
              /\ runs[i].invoked = 1
              /\ runs[i].pc = "done" =>
                    ~runs[i].ok /\ runs[i].status = "error"
    /\ sched_running
    /\ \A s \in skips : ~s.timed_out

\* a firing of j1 was refused while the timed-out run of j1 held its
\* instance, and nothing of that run is recorded yet
C16_Witness ==
    /\ [job |-> "j1", timed_out |-> TRUE] \in skips
    /\ Len(runs) = 1
    /\ runs[1].job = "j1"
    /\ runs[1].origin = "scheduled"
    /\ runs[1].timer = "expired"
    /\ runs[1].module = "running"
    /\ runs[1].status = "none"
    /\ instances["j1"] = DefaultMaxInstances

\* C17 as stated: no two runs of the same job id are executing at the same
\* time, whatever the interleaving of firings and RUN commands.
C17_OneRunPerJobId ==
    \A i, k \in 1..Len(runs) :
        (i # k /\ runs[i].job = runs[k].job) =>
            ~(RunExecuting(runs[i]) /\ RunExecuting(runs[k]))

\* a RUN command for j1 was taken while the scheduled run of j1 was
\* executing: both modules are running
C17_Witness ==
    /\ Len(runs) = 2
    /\ runs[1].job = "j1" /\ runs[1].origin = "scheduled"
    /\ runs[2].job = "j1" /\ runs[2].origin = "command"
    /\ runs[1].module = "running" /\ runs[2].module = "running"
    /\ instances["j1"] = DefaultMaxInstances
    /\ imap_run = 2

(***************************************************************************)
(* SchedulerController: stop() and join()  (service/scheduler.py)          *)
(***************************************************************************)
\* stop() calls the model follows, one after the other
MaxStops == 3

\* longest timeout given to join(), in clock ticks
MaxJoinTimeout == 2

\* stop() that would set the event without shutting the scheduler down
AfterRunningTestNoShutdown(running) == "set"

\* stop(): "if self._scheduler.running:" leads to shutdown, else straight
\* to the event
AfterRunningTest(running) == IF running THEN "shutdown" ELSE "set"

\* stop() is called and tests scheduler.running
StopCall ==
    /\ stop_pc = "idle"
    /\ stop_exc = "none"
    /\ stop_calls < MaxStops
    /\ stop_pc' = AfterRunningTest(sched_running)
    /\ UNCHANGED <<sched_running, stopped_evt, stop_calls, stop_exc, join_pc,
                   join_timeout, join_waited, join_result>>
    /\ UNCHANGED <<trigVars, storeVars, engVars, cmdVars, startVars, jobVars>>

\* stop(): scheduler.shutdown(wait=False), which raises
\* SchedulerNotRunningError on a scheduler that is not running
StopShutdown ==
    /\ stop_pc = "shutdown"
    /\ IF sched_running
       THEN /\ sched_running' = FALSE
            /\ stop_pc' = "set"
            /\ UNCHANGED stop_exc
       ELSE /\ stop_exc' = "SchedulerNotRunningError"
            /\ stop_pc' = "idle"
            /\ UNCHANGED sched_running
    /\ UNCHANGED <<stopped_evt, stop_calls, join_pc, join_timeout,
                   join_waited, join_result>>
    /\ UNCHANGED <<trigVars, storeVars, engVars, cmdVars, startVars, jobVars>>

\* stop(): self._stopped_evt.set(), and the call returns
StopSetEvent ==
    /\ stop_pc = "set"
    /\ stopped_evt' = TRUE
    /\ stop_pc' = "idle"
    /\ stop_calls' = stop_calls + 1
    /\ UNCHANGED <<sched_running, stop_exc, join_pc, join_timeout,
                   join_waited, join_result>>
    /\ UNCHANGED <<trigVars, storeVars, engVars, cmdVars, startVars, jobVars>>

\* join(timeout) is called: timeout 0 stands for None
JoinCall(timeout) ==
    /\ join_pc = "idle"
    /\ join_pc' = "waiting"
    /\ join_timeout' = timeout
    /\ join_waited' = 0
    /\ UNCHANGED <<sched_running, stopped_evt, stop_pc, stop_calls, stop_exc,
                   join_result>>
    /\ UNCHANGED <<trigVars, storeVars, engVars, cmdVars, startVars, jobVars>>

\* a clock tick passes while join() waits on the event with a timeout
JoinTick ==
    /\ join_pc = "waiting"
    /\ join_timeout > 0
    /\ join_waited < join_timeout
    /\ ~stopped_evt
    /\ join_waited' = join_waited + 1
    /\ UNCHANGED <<sched_running, stopped_evt, stop_pc, stop_calls, stop_exc,
                   join_pc, join_timeout, join_result>>
    /\ UNCHANGED <<trigVars, storeVars, engVars, cmdVars, startVars, jobVars>>

\* Event.wait returns: True once the event is set, False once the timeout
\* has passed with the event not set
JoinReturn ==
    /\ join_pc = "waiting"
    /\ stopped_evt \/ (join_timeout > 0 /\ join_waited >= join_timeout)
    /\ join_result' = stopped_evt
    /\ join_pc' = "returned"
    /\ UNCHANGED <<sched_running, stopped_evt, stop_pc, stop_calls, stop_exc,
                   join_timeout, join_waited>>
    /\ UNCHANGED <<trigVars, storeVars, engVars, cmdVars, startVars, jobVars>>

\* the caller of join() goes on and may join again
JoinAgain ==
    /\ join_pc = "returned"
    /\ join_pc' = "idle"
    /\ UNCHANGED <<sched_running, stopped_evt, stop_pc, stop_calls, stop_exc,
                   join_timeout, join_waited, join_result>>
    /\ UNCHANGED <<trigVars, storeVars, engVars, cmdVars, startVars, jobVars>>

\* the controller start() returns: the scheduler is running, the event clear
InitController ==
    /\ TrigIdle
    /\ StoreInit
    /\ EngineInit
    /\ StartIdle
    /\ JobsIdle
    /\ CtlIdle
    /\ CmdIdle

NextController ==
    \/ StopCall
    \/ StopShutdown
    \/ StopSetEvent
    \/ \E timeout \in 0..MaxJoinTimeout : JoinCall(timeout)
    \/ JoinTick
    \/ JoinReturn
    \/ JoinAgain

SpecController == InitController /\ [][NextController]_vars

(***************************************************************************)
(* C20                                                                     *)
(***************************************************************************)
\* stop() has been called at least once
StopWasCalled == stop_calls > 0 \/ stop_pc # "idle" \/ stop_exc # "none"

\* C20: join() returns only when the event is set or its timeout has passed;
\* it returns True exactly when stop() has shut the scheduler down by then
\* (so never before stop() was called) and False otherwise; no stop() call
\* raises, however often stop() is called and also when the scheduler is no
\* longer running.
C20_JoinAndStop ==
    /\ [][(join_pc = "waiting" /\ join_pc' = "returned") =>
             /\ join_result' = (StopWasCalled /\ ~sched_running /\ stopped_evt)
             /\ join_result' \/ (join_timeout > 0 /\ join_waited >= join_timeout)
             /\ stopped_evt => ~sched_running]_vars
    /\ [](stop_exc = "none")
    /\ [](stopped_evt => StopWasCalled /\ ~sched_running)

\* stop() has returned twice, the second time on a scheduler that was no
\* longer running, and a join() with a timeout has returned True
C20_Witness ==
    /\ stop_calls = 2
    /\ stop_exc = "none"
    /\ ~sched_running
    /\ join_pc = "returned"
    /\ join_result
    /\ join_timeout > 0

(***************************************************************************)
(* run_module_once: result coercion and the email gate (service/runner.py) *)
(***************************************************************************)
\* an environment variable that is not set
Unset == <<"<unset>">>

\* os.getenv(name, default)
GetEnv(v, default) == IF v = Unset THEN default ELSE v

\* the values that switch an environment flag on
OnTexts == {<<"1">>, <<"t", "r", "u", "e">>, <<"y", "e", "s">>, <<"o", "n">>}

\* str(os.getenv(name, default)).strip().lower() in {"1", "true", "yes", "on"}
EnvFlag(v, default) == Lower(Strip(GetEnv(v, default))) \in OnTexts

PyTrue == PyBool(TRUE)

PyFalse == PyBool(FALSE)

\* the email gate written without the dry-run override
EffectiveSendNoDryRun(send_email, env_send, env_dry) ==
    IF send_email # PyNone THEN send_email = PyTrue
    ELSE EnvFlag(env_send, <<"1">>)

\* effective_send: the argument, the SEND_EMAIL default when the argument is
\* None, and never with SCHEDULED_MODULES_DRY_RUN on
EffectiveSend(send_email, env_send, env_dry) ==
    IF EnvFlag(env_dry, <<>>) THEN FALSE
    ELSE IF send_email # PyNone THEN send_email = PyTrue
    ELSE EnvFlag(env_send, <<"1">>)

\* what a module's run() hands back: its shape, and the value that is the
\* string itself, the "html" entry of a dict (absent if it has none) or the
\* first element of a (str, dict) tuple
ModuleValue(shape, v) == [shape |-> shape, v |-> v]

TxtHtml == <<"<", "p", ">">>

RunResult(ok, html) == [ok |-> ok, html |-> html]

\* _coerce_result: the RunResult of a returned value, or the TypeError
_coerce_result(value) ==
    IF value.shape = "dict" /\ value.v = PyAbsent
    THEN [status |-> "ok", result |-> RunResult(TRUE, PyNone)]
    ELSE IF value.shape = "str"
    THEN [status |-> "ok", result |-> RunResult(TRUE, value.v)]
    ELSE IF value.shape = "none"
    THEN [status |-> "ok", result |-> RunResult(TRUE, PyNone)]
    ELSE IF value.shape = "dict"
    THEN [status |-> "ok",
          result |-> RunResult(TRUE, IF value.v.t = "str" THEN value.v
                                     ELSE PyNone)]
    ELSE IF value.shape = "tuple" /\ value.v.t = "str"
    THEN [status |-> "ok", result |-> RunResult(TRUE, value.v)]
    ELSE [status |-> "TypeError", result |-> RunResult(FALSE, PyNone)]

\* bool(result.html)
HtmlTruthy(html) == html.t = "str" /\ html.s # <<>>

\* ---- inputs ----
ModuleValues ==
    {ModuleValue("none", PyNone),
     ModuleValue("str", PyStr(<<>>)),
     ModuleValue("str", PyStr(TxtHtml)),
     ModuleValue("dict", PyAbsent),
     ModuleValue("dict", PyStr(TxtHtml)),
     ModuleValue("dict", PyStr(<<>>)),
     ModuleValue("dict", PyInt(5)),
     ModuleValue("dict", PyNone),
     ModuleValue("tuple", PyStr(TxtHtml)),
     ModuleValue("tuple", PyStr(<<>>)),
     ModuleValue("tuple", PyInt(5)),
     ModuleValue("int", PyInt(7))}

\* what the module's run() does inside the worker thread
ModuleDoes == {"returns", "raises", "times_out"}

SendEmailArgs == {PyTrue, PyFalse, PyNone}

DryRunTexts == {Unset, <<>>, <<"1">>, <<" ", "O", "n", " ">>, <<"0">>}

SendEnvTexts == {Unset, <<"0">>, <<"y", "e", "s">>, <<"o", "f", "f">>}

\* what send_html does when it is called
SmtpOutcomes == {"sent", "EmailSendError", "Exception"}

\* who calls run_module_once: the CLI, or _job_wrapper at a firing
Callers == {"cli", "scheduler"}

\* what a logging backend call or the fallback file write does
LogOutcomes == {"ok", "raises"}

\* a logging call: whether it returned or raised, and where the record went
Logged(status, written) == [status |-> status, written |-> written]

\* _emit_activity_jsonl with its two try blocks taken away
EmitUnguarded(present, backend, file) ==
    IF present
    THEN IF backend = "ok" THEN Logged("returned", "backend")
         ELSE Logged("raised", "nowhere")
    ELSE IF file = "ok" THEN Logged("returned", "file")
    ELSE Logged("raised", "nowhere")

\* _emit_activity_jsonl: the backend if it was imported, the local JSONL file
\* if there is none or it raised; a failure of either is logged, not raised
_emit_activity_jsonl(present, backend, file) ==
    IF present /\ backend = "ok" THEN Logged("returned", "backend")
    ELSE IF file = "ok" THEN Logged("returned", "file")
    ELSE Logged("returned", "nowhere")

\* scheduler._write_activity: best effort, a failure goes to LOG.debug
_write_activity(backend) ==
    IF backend = "ok" THEN Logged("returned", "backend")
    ELSE Logged("returned", "nowhere")

\* logging_bridge.activity / error: the backend if there is one, stdlib
\* logging if there is none or it raised
BridgeLog(present, backend) ==
    IF present /\ backend = "ok" THEN Logged("returned", "backend")
    ELSE Logged("returned", "stdlib")

\* ---- actions ----
\* run_module_once(module, send_email=..., ...) is called
MailCall(caller, does, value, send_email, env_dry, env_send) ==
    /\ mail_pc = "idle"
    /\ ro_pc = "idle"
    /\ mail_pc' = "invoke"
    /\ mail_in' = [caller |-> caller, does |-> does, value |-> value,
                   send_email |-> send_email, env_dry |-> env_dry,
                   env_send |-> env_send]
    /\ UNCHANGED <<mail_result, mail_exc, send_calls, html_sent, mail_ret,
                   mail_logged, job_done>>
    /\ UNCHANGED <<trigVars, storeVars, engVars, startVars, jobVars, ctlVars,
                   roVars, lisVars>>

\* lines 347-359: the module runs in the worker thread and its value is
\* coerced; a timeout or an exception leaves a RunResult without html
MailInvoke ==
    /\ mail_pc = "invoke"
    /\ mail_pc' = "gate"
    /\ IF mail_in.does = "times_out"
       THEN /\ mail_exc' = "TimeoutError"
            /\ mail_result' = RunResult(FALSE, PyNone)
       ELSE IF mail_in.does = "raises"
       THEN /\ mail_exc' = "ModuleError"
            /\ mail_result' = RunResult(FALSE, PyNone)
       ELSE /\ mail_exc' = (IF _coerce_result(mail_in.value).status = "ok"
                            THEN "none" ELSE "TypeError")
            /\ mail_result' = _coerce_result(mail_in.value).result
    /\ UNCHANGED <<mail_in, send_calls, html_sent, mail_ret, mail_logged,
                   job_done>>
    /\ UNCHANGED <<trigVars, storeVars, engVars, startVars, jobVars, ctlVars,
                   roVars, lisVars>>

\* lines 361-394: the gate and the one send_html call behind it; a failed
\* send is logged and swallowed
MailGate(smtp) ==
    /\ mail_pc = "gate"
    /\ mail_pc' = "record"
    /\ IF HtmlTruthy(mail_result.html)
          /\ EffectiveSend(mail_in.send_email, mail_in.env_send,
                           mail_in.env_dry)
       THEN /\ send_calls' = send_calls + 1
            /\ html_sent' = (smtp = "sent")
       ELSE /\ smtp = "sent"
            /\ UNCHANGED <<send_calls, html_sent>>
    /\ UNCHANGED <<mail_in, mail_result, mail_exc, mail_ret, mail_logged,
                   job_done>>
    /\ UNCHANGED <<trigVars, storeVars, engVars, startVars, jobVars, ctlVars,
                   roVars, lisVars>>

\* lines 396-420: the activity record is emitted, then the held exception
\* is re-raised or (html_out, run_id) is returned
MailReturn(present, backend, file) ==
    /\ mail_pc = "record"
    /\ mail_pc' = "done"
    /\ mail_logged' = _emit_activity_jsonl(present, backend, file).written
    /\ mail_ret' =
          IF _emit_activity_jsonl(present, backend, file).status = "raised"
          THEN [raised |-> "LogError", html_out |-> PyNone,
                emailed |-> html_sent]
          ELSE IF mail_exc # "none"
          THEN [raised |-> mail_exc, html_out |-> PyNone,
                emailed |-> html_sent]
          ELSE [raised |-> "none", html_out |-> mail_result.html,
                emailed |-> html_sent]
    /\ UNCHANGED <<mail_in, mail_result, mail_exc, send_calls, html_sent,
                   job_done>>
    /\ UNCHANGED <<trigVars, storeVars, engVars, startVars, jobVars, ctlVars,
                   roVars, lisVars>>

\* scheduler.py 494-502: _job_wrapper after its run_module_once call; an
\* exception is logged and recorded as status error, a return as status ok
JobWrapperEnd(backend) ==
    /\ mail_pc = "done"
    /\ mail_in.caller = "scheduler"
    /\ job_done.status = "none"
    /\ job_done' =
          IF _write_activity(backend).status = "raised"
          THEN [status |-> "raised", written |-> "nowhere"]
          ELSE [status |-> IF mail_ret.raised = "none" THEN "ok" ELSE "error",
                written |-> _write_activity(backend).written]
    /\ UNCHANGED <<mail_pc, mail_in, mail_result, mail_exc, send_calls,
                   html_sent, mail_ret, mail_logged>>
    /\ UNCHANGED <<trigVars, storeVars, engVars, startVars, jobVars, ctlVars,
                   roVars, lisVars>>

InitMail ==
    /\ TrigIdle
    /\ StoreInit
    /\ EngineInit
    /\ SvcIdle

NextMail ==
    \/ \E caller \in Callers, does \in ModuleDoes, value \in ModuleValues,
          send_email \in SendEmailArgs, env_dry \in DryRunTexts,
          env_send \in SendEnvTexts :
          MailCall(caller, does, value, send_email, env_dry, env_send)
    \/ MailInvoke
    \/ \E smtp \in SmtpOutcomes : MailGate(smtp)
    \/ \E present \in BOOLEAN, backend \in LogOutcomes, file \in LogOutcomes :
          MailReturn(present, backend, file)
    \/ \E backend \in LogOutcomes : JobWrapperEnd(backend)

SpecMail == InitMail /\ [][NextMail]_vars

(***************************************************************************)
(* C21                                                                     *)
(***************************************************************************)
\* the module handed back HTML that is a non-empty string
ReturnedHtml ==
    /\ mail_in.does = "returns"
    /\ \/ mail_in.value.shape \in {"str", "tuple"}
       \/ mail_in.value.shape = "dict" /\ mail_in.value.v # PyAbsent
    /\ mail_in.value.v.t = "str"
    /\ mail_in.value.v.s # <<>>

\* the dry-run switch is on (1, true, yes or on, in any case, blanks aside)
DryRunOn ==
    /\ mail_in.env_dry # Unset
    /\ Lower(Strip(mail_in.env_dry)) \in OnTexts

\* C21: a finished run_module_once call with a boolean send_email has made
\* one send_html call if the module returned non-empty HTML, send_email is
\* true and the dry-run switch is off, and none otherwise; no call makes
\* more than one, and a run whose module returns None, a run with
\* send_email=False and a dry run make none.
C21_EmailGate ==
    /\ send_calls <= 1
    /\ html_sent => send_calls = 1
    /\ mail_pc \in {"record", "done"} /\ mail_in.send_email # PyNone =>
          (send_calls = 1) =
             (ReturnedHtml /\ mail_in.send_email = PyTrue /\ ~DryRunOn)
    /\ mail_pc \in {"record", "done"}
         /\ \/ mail_in.does = "returns" /\ mail_in.value.shape = "none"
            \/ mail_in.send_email = PyFalse
            \/ DryRunOn
       => send_calls = 0

\* a call with send_email=True and the dry-run switch off, whose module
\* returned HTML, has sent its one email and returned the HTML
C21_Witness ==
    /\ mail_pc = "done"
    /\ ReturnedHtml
    /\ mail_in.send_email = PyTrue
    /\ ~DryRunOn
    /\ send_calls = 1
    /\ html_sent
    /\ mail_ret.raised = "none"
    /\ mail_ret.html_out = PyStr(TxtHtml)

(***************************************************************************)
(* The structured logs of run_once (engine.py, db.py, logging_bridge.py)   *)
(***************************************************************************)
\* logging_bridge.activity / error with the try around the backend taken away
BridgeLogUnguarded(present, backend) ==
    IF present
    THEN IF backend = "ok" THEN Logged("returned", "backend")
         ELSE Logged("raised", "nowhere")
    ELSE Logged("returned", "stdlib")

\* how a run_once call ends when it reaches its last lines
RoEndings == {"ingest_only", "no_new", "rendered"}

\* n copies of a record name
Copies(n, x) == [i \in 1..n |-> x]

\* the logging_bridge calls of a run_once call, in the order it makes them:
\* one skip record per kind with skip_network (77), one error per failed
\* kind (109), then filter_new's error record when the store raises
\* (db.py 75) or else the summary (140) and the record of the ending
\* (156, 177 or 220)
RoSites(in) ==
    (IF in.skip_network THEN Copies(Len(Kinds), "skip") ELSE <<>>)
    \o Copies(in.failed, "kind_error")
    \o (IF in.dedupe = "raises" THEN <<"db_error">>
        ELSE <<"summary", in.ending>>)

\* run_once(settings) is called
RoCall(skip_network, failed, dedupe, ending) ==
    /\ ro_pc = "idle"
    /\ mail_pc = "idle"
    /\ skip_network => failed = 0
    /\ ro_pc' = "running"
    /\ ro_in' = [skip_network |-> skip_network, failed |-> failed,
                 dedupe |-> dedupe, ending |-> ending]
    /\ UNCHANGED <<ro_logs, ro_result>>
    /\ UNCHANGED <<trigVars, storeVars, engVars, startVars, jobVars, ctlVars,
                   mailVars, lisVars>>

\* the call reaches its next logging_bridge call; filter_new re-raises the
\* store's error after its record
RoLog(present, backend) ==
    /\ ro_pc = "running"
    /\ Len(ro_logs) < Len(RoSites(ro_in))
    /\ ro_logs' = Append(ro_logs, BridgeLog(present, backend).written)
    /\ IF BridgeLog(present, backend).status = "raised"
       THEN ro_pc' = "done" /\ ro_result' = "LogError"
       ELSE IF RoSites(ro_in)[Len(ro_logs) + 1] = "db_error"
       THEN ro_pc' = "done" /\ ro_result' = "StoreError"
       ELSE UNCHANGED <<ro_pc, ro_result>>
    /\ UNCHANGED ro_in
    /\ UNCHANGED <<trigVars, storeVars, engVars, startVars, jobVars, ctlVars,
                   mailVars, lisVars>>

\* run_once returns: None for ingest-only and for nothing new to send,
\* (html, meta) after rendering
RoReturn ==
    /\ ro_pc = "running"
    /\ Len(ro_logs) = Len(RoSites(ro_in))
    /\ ro_pc' = "done"
    /\ ro_result' = (IF ro_in.ending = "rendered" THEN "html_meta" ELSE "None")
    /\ UNCHANGED <<ro_in, ro_logs>>
    /\ UNCHANGED <<trigVars, storeVars, engVars, startVars, jobVars, ctlVars,
                   mailVars, lisVars>>

NextLogging ==
    \/ NextMail
    \/ \E skip_network \in BOOLEAN, failed \in 0..Len(Kinds),
          dedupe \in {"ok", "raises"}, ending \in RoEndings :
          RoCall(skip_network, failed, dedupe, ending)
    \/ \E present \in BOOLEAN, backend \in LogOutcomes :
          RoLog(present, backend)
    \/ RoReturn

SpecLogging == InitMail /\ [][NextLogging]_vars

(***************************************************************************)
(* C26                                                                     *)
(***************************************************************************)
\* the exception the module call of run_module_once ends in, "none" if none
ModuleError ==
    IF mail_in.does = "times_out" THEN "TimeoutError"
    ELSE IF mail_in.does = "raises" THEN "ModuleError"
    ELSE IF \/ mail_in.value.shape = "int"
            \/ mail_in.value.shape = "tuple" /\ mail_in.value.v.t # "str"
    THEN "TypeError"
    ELSE "none"

MaxUid == 2

\* Most handle_command calls followed for one email.
MaxHandles == 2

InitialBackoff == 30

BackoffCap == 300

\* min(backoff * 2, 300)
NextBackoff(b) == IF b * 2 < BackoffCap THEN b * 2 ELSE BackoffCap

\* what handle_command hands back for an email: the reply of a LIST command
\* or of a RUN that replies, and (sender, None, None) for a RUN whose
\* send_email is off
CommandKinds == {"reply", "silent_run"}

\* the content handle_command returns
ContentOf(kind) == IF kind = "reply" THEN PyStr(TxtHtml) ELSE PyNone

\* what send_html does with the reply
ReplyOutcomes == {"sent", "EmailSendError", "Exception"}

\* max(uids) if uids else 0
MaxUidOf(box) == Len(box)

\* sorted(u for u in client.search(["ALL"]) if u > last_uid)
NewUids(box, after) ==
    [i \in 1..(IF Len(box) > after THEN Len(box) - after ELSE 0) |-> after + i]

\* the `except Exception` of the retry loop: leave if stopping, else sleep
\* for backoff seconds and double it
RetryHandler(after_ok) ==
    /\ new_uids' = <<>>
    /\ IF lis_stop
       THEN /\ lis_pc' = "stopped"
            /\ UNCHANGED <<backoff, retry_wait, retry_after_ok>>
       ELSE /\ lis_pc' = "connect"
            /\ retry_wait' = backoff
            /\ retry_after_ok' = after_ok
            /\ backoff' = NextBackoff(backoff)
    /\ UNCHANGED <<lis_stop, last_uid, state_file, inbox, handled>>

\* the frame of every listener action
LisFrame ==
    UNCHANGED <<trigVars, storeVars, engVars, startVars, jobVars, ctlVars,
                mailVars, roVars>>

\* a command email is delivered to the mailbox
MailArrives(kind) ==
    /\ lis_pc # "off"
    /\ Len(inbox) < MaxUid
    /\ inbox' = Append(inbox, kind)
    /\ handled' = Append(handled, 0)
    /\ UNCHANGED <<lis_pc, lis_stop, backoff, last_uid, state_file, new_uids,
                   retry_wait, retry_after_ok>>
    /\ LisFrame

\* stop_event.set()
StopListener ==
    /\ lis_pc # "off"
    /\ ~lis_stop
    /\ lis_stop' = TRUE
    /\ UNCHANGED <<lis_pc, backoff, last_uid, state_file, inbox, new_uids,
                   handled, retry_wait, retry_after_ok>>
    /\ LisFrame

\* `while not stop_event.is_set()` of the retry loop finds the event set
LoopExit ==
    /\ lis_pc = "connect"
    /\ lis_stop
    /\ lis_pc' = "stopped"
    /\ UNCHANGED <<lis_stop, backoff, last_uid, state_file, inbox, new_uids,
                   handled, retry_wait, retry_after_ok>>
    /\ LisFrame

\* connecting, logging in, resolving or selecting the mailbox raises
ConnectFails ==
    /\ lis_pc = "connect"
    /\ ~lis_stop
    /\ RetryHandler(FALSE)
    /\ LisFrame

\* lines 169-183: the connection is established, last_uid is loaded and, if
\* there is no state, initialised from the mailbox and saved
ConnectOk(save) ==
    /\ lis_pc = "connect"
    /\ ~lis_stop
    /\ lis_pc' = "scan"
    /\ IF state_file = 0
       THEN /\ last_uid' = MaxUidOf(inbox)
            /\ state_file' = IF save THEN MaxUidOf(inbox) ELSE state_file
       ELSE /\ last_uid' = state_file
            /\ UNCHANGED state_file
    /\ UNCHANGED <<lis_stop, backoff, inbox, new_uids, handled, retry_wait,
                   retry_after_ok>>
    /\ LisFrame

\* _process_new_emails up to its loop: nothing to do when stopping or when
\* no UID lies above last_uid
ScanMailbox ==
    /\ lis_pc = "scan"
    /\ IF lis_stop \/ NewUids(inbox, last_uid) = <<>>
       THEN lis_pc' = "idle" /\ new_uids' = <<>>
       ELSE lis_pc' = "loop" /\ new_uids' = NewUids(inbox, last_uid)
    /\ UNCHANGED <<lis_stop, backoff, last_uid, state_file, inbox, handled,
                   retry_wait, retry_after_ok>>
    /\ LisFrame

\* the reply step of one email: "sent" and "failed" go on to record the UID,
\* "raised" leaves the try block of the email
ReplyStep(content, send) ==
    IF content.t # "str" THEN "raised"
    ELSE IF send = "sent" THEN "sent"
    ELSE IF send = "EmailSendError" THEN "failed"
    ELSE "raised"

\* one turn of the loop of _process_new_emails (lines 196-226): fetch,
\* handle_command, reply, then last_uid = uid and the save; any exception on
\* the way is logged and the loop goes on with the next UID
ProcessUid(fetch_ok, send, save) ==
    /\ lis_pc = "loop"
    /\ new_uids # <<>>
    /\ IF lis_stop
       THEN /\ lis_pc' = "idle"
            /\ new_uids' = <<>>
            /\ fetch_ok /\ send = "sent" /\ save
            /\ UNCHANGED <<last_uid, state_file, handled>>
       ELSE /\ new_uids' = Tail(new_uids)
            /\ lis_pc' = IF Tail(new_uids) = <<>> THEN "idle" ELSE "loop"
            /\ IF ~fetch_ok
               THEN /\ send = "sent" /\ save
                    /\ UNCHANGED <<last_uid, state_file, handled>>
               ELSE /\ handled[Head(new_uids)] < MaxHandles
                    /\ handled' = [handled EXCEPT ![Head(new_uids)] = @ + 1]
                    /\ IF ReplyStep(ContentOf(inbox[Head(new_uids)]), send)
                             = "raised"
                       THEN save /\ UNCHANGED <<last_uid, state_file>>
                       ELSE /\ last_uid' = Head(new_uids)
                            /\ state_file' = IF save THEN Head(new_uids)
                                             ELSE state_file
    /\ UNCHANGED <<lis_stop, backoff, inbox, retry_wait, retry_after_ok>>
    /\ LisFrame

\* the idle loop: idle_check returns and _process_new_emails runs again
IdleWake ==
    /\ lis_pc = "idle"
    /\ ~lis_stop
    /\ lis_pc' = "scan"
    /\ UNCHANGED <<lis_stop, backoff, last_uid, state_file, inbox, new_uids,
                   handled, retry_wait, retry_after_ok>>
    /\ LisFrame

\* the idle loop ends because the stop event is set; the `with` block is
\* left without an exception and line 247 resets the backoff
IdleExit ==
    /\ lis_pc = "idle"
    /\ lis_stop
    /\ backoff' = InitialBackoff
    /\ lis_pc' = "stopped"
    /\ UNCHANGED <<lis_stop, last_uid, state_file, inbox, new_uids, handled,
                   retry_wait, retry_after_ok>>
    /\ LisFrame

\* the established connection breaks: search, idle or idle_check raises
ConnectionDrops ==
    /\ lis_pc \in {"scan", "idle"}
    /\ RetryHandler(TRUE)
    /\ LisFrame

InitListener ==
    /\ TrigIdle
    /\ StoreInit
    /\ EngineInit
    /\ StartIdle
    /\ JobsIdle
    /\ CtlIdle
    /\ MailIdle
    /\ RoIdle
    /\ lis_pc = "connect"
    /\ lis_stop = FALSE
    /\ backoff = InitialBackoff
    /\ last_uid = 0
    /\ state_file = 0
    /\ inbox = <<>>
    /\ new_uids = <<>>
    /\ handled = <<>>
    /\ retry_wait = 0
    /\ retry_after_ok = FALSE

NextListener ==
    \/ \E kind \in CommandKinds : MailArrives(kind)
    \/ StopListener
    \/ LoopExit
    \/ ConnectFails
    \/ \E save \in BOOLEAN : ConnectOk(save)
    \/ ScanMailbox
    \/ \E fetch_ok \in BOOLEAN, send \in ReplyOutcomes, save \in BOOLEAN :
          ProcessUid(fetch_ok, send, save)
    \/ IdleWake
    \/ IdleExit
    \/ ConnectionDrops

SpecListener == InitListener /\ [][NextListener]_vars

(***************************************************************************)
(* C27, C28                                                                *)
(***************************************************************************)
\* C27: handle_command is called at most once for every UID of the mailbox.
C27_EachCommandOnce == \A u \in 1..Len(handled) : handled[u] <= 1

\* the email of UID 1 is a RUN whose send_email is off; handle_command has
\* been called for it twice and last_uid is still below it
C27_Witness ==
    /\ Len(inbox) >= 1
    /\ inbox[1] = "silent_run"
    /\ handled[1] = 2
    /\ last_uid = 0

\* C28: the backoff starts at 30, doubles with each failure up to 300, and
\* a retry that follows an established connection waits 30 seconds.
C28_BackoffResets ==
    /\ lis_pc # "off" => backoff \in {30, 60, 120, 240, 300}
    /\ retry_wait <= BackoffCap
    /\ retry_after_ok => retry_wait = InitialBackoff

\* the listener failed to connect twice, then connected, and the retry
\* after that connection broke waited 120 seconds
C28_Witness ==
    /\ retry_after_ok
    /\ retry_wait = 120
    /\ backoff = 240

(***************************************************************************)
(* C29                                                                     *)
(***************************************************************************)
\* this step is a RUN command for job j whose next firing is within 6 hours
RunSkipsNext(j) ==
    /\ live[j]
    /\ Len(runs') = Len(runs) + 1
    /\ runs'[Len(runs')].job = j
    /\ runs'[Len(runs')].origin = "command"
    /\ runs'[Len(runs')].within6h

\* this step starts a scheduled run of job j
FiresNow(j) ==
    /\ Len(runs') = Len(runs) + 1
    /\ runs'[Len(runs')].job = j
    /\ runs'[Len(runs')].origin = "scheduled"

\* C29: a RUN command for a registered job whose next firing is less than
\* six hours away removes the job and leaves a resume task pending; a
\* removed job does not fire; at all times every job is registered or has a
\* pending resume task; a removed job is eventually registered again.
C29_SkipAndResume ==
    /\ [][\A j \in JobIds :
            /\ RunSkipsNext(j) => ~live'[j] /\ resume'[j]
            /\ ~live[j] => ~FiresNow(j)]_vars
    /\ [](\A j \in JobIds : live[j] \/ resume[j])
    /\ \A j \in JobIds : ~live[j] ~> live[j]

\* job j1 was removed by a RUN command and its resume task was dropped as
\* missed: it is neither registered nor waiting to be
C29_Witness ==
    /\ ~live["j1"]
    /\ ~resume["j1"]
    /\ \E i \in 1..Len(runs) :
          runs[i].job = "j1" /\ runs[i].origin = "command" /\ runs[i].within6h

====
